---- MODULE Spec2Model ----
(***************************************************************************)
(* The nutrition collector of hoyaeats_api (src/api/scrape.ts):            *)
(* collectNutritionData drives fetchNutrition over the recipe ids of its   *)
(* input, in batches of BATCH_SIZE ids split into concurrency groups of    *)
(* CONCURRENT_REQUESTS ids, against the module-level nutritionCache that   *)
(* is loaded from and saved to the durable store.                          *)
(*                                                                         *)
(* One action is one synchronous stretch of the code between two awaits.   *)
(* The network is the environment: every lookup in flight is answered by   *)
(* one of Responses.                                                       *)
(***************************************************************************)
EXTENDS Integers, Sequences, FiniteSets, TLC

----------------------------------------------------------------------------
(* Bounds of the model *)

\* recipe ids are 0..MaxId; 0 stands for the ids that fail the id > 0 filter
MaxId == 4
\* longest input list of the general inputs
MaxLen == 2
\* the durable store holds entries for the ids 1..MaxStored only
MaxStored == 1
\* how many ids the endpoint answers with 429 in one run
MaxLimited == 1
\* how many direct calls of the cache operations a client makes
MaxCalls == 3
\* how many food-item markers a document has
MaxMarkers == 2
\* how long the names given to generateSlug are (two longer ones apart)
MaxNameLen == 3
\* how many times generateSlug is called on one pair
MaxSlugCalls == 2
\* how many days the window of getNextWeekDates has (7 in the code)
WindowDays == 2

\* src/api/scrape.ts:82 sets 5 and :83 sets 25; the model runs the same
\* slicing with smaller values so that several groups and batches occur
CONCURRENT_REQUESTS == 2
BATCH_SIZE == 3

(* Program constants *)

\* the retry ceiling of fetchNutrition, retryCount < 3
MaxRetries == 3

----------------------------------------------------------------------------
(* Values *)

RecipeIdValues == 0..MaxId
PosIds == 1..MaxId

\* recipeId.toString(): the cache is keyed by the string form of the id
IdKey(id) == ToString(id)

\* A nutrition record is a mapping label -> value, kept as its set of pairs.
EmptyRecord == {}
StoredRecord == {<<"Calories", "90">>}
FetchedRecord == {<<"Calories", "120">>, <<"Fat", "7 g">>}

\* Object.keys(record).length
NumKeys(record) == Cardinality(record)

\* The cache objects: mappings from some keys to records.
EmptyCache == [k \in {} |-> EmptyRecord]
CachePutEvicting(cache, key, record) ==
    IF key \in DOMAIN cache /\ cache[key] = record
    THEN [k \in (DOMAIN cache) \ {key} |-> cache[k]]
    ELSE [k \in (DOMAIN cache) \cup {key} |-> IF k = key THEN record ELSE cache[k]]
CachePut(cache, key, record) ==
    [k \in (DOMAIN cache) \cup {key} |-> IF k = key THEN record ELSE cache[k]]

\* the cache after a lookup that gave no record to keep (404, a fragment
\* without nutrient rows, a failure): no statement of these paths touches it
CacheAfterMissDropped(cache, key) == [k \in (DOMAIN cache) \ {key} |-> cache[k]]
CacheAfterMiss(cache, key) == cache

\* truthiness of nutritionCache[key]: any object, also {}, is truthy
HasEntry(cache, key) == key \in DOMAIN cache

\* What the durable store can hold.  It is written by earlier runs and by
\* other tools, and JSON.parse takes whatever is there: an entry may be {}.
StoredKeys == {IdKey(id) : id \in 1..MaxStored}
StoredCaches ==
    UNION {[S -> {EmptyRecord, StoredRecord}] : S \in SUBSET StoredKeys}

\* The cache object of the durable store is a file: absent, a text that
\* JSON.parse rejects, or a JSON text.  A JSON text is kept as the sequence
\* of its members <<key, record>>.
AbsentFile == [kind |-> "absent", members |-> <<>>]
MalformedFile == [kind |-> "malformed", members |-> <<>>]
JsonFile(members) == [kind |-> "json", members |-> members]

\* the id whose string form is key
KeyId(key) == CHOOSE id \in RecipeIdValues : IdKey(id) = key

\* JSON.stringify(nutritionCache, null, 2): the members of the object in
\* property order, which for integer-like keys is ascending numeric order
RECURSIVE StringifyNonEmpty(_)
StringifyNonEmpty(cache) ==
    IF DOMAIN cache = {} THEN <<>>
    ELSE LET first == CHOOSE k \in DOMAIN cache :
                          \A j \in DOMAIN cache : KeyId(k) <= KeyId(j)
             rest == [k \in (DOMAIN cache) \ {first} |-> cache[k]]
         IN  (IF cache[first] = EmptyRecord THEN <<>> ELSE <<<<first, cache[first]>>>>)
                \o StringifyNonEmpty(rest)
RECURSIVE Stringify(_)
Stringify(cache) ==
    IF DOMAIN cache = {} THEN <<>>
    ELSE LET first == CHOOSE k \in DOMAIN cache :
                          \A j \in DOMAIN cache : KeyId(k) <= KeyId(j)
             rest == [k \in (DOMAIN cache) \ {first} |-> cache[k]]
         IN  <<<<first, cache[first]>>>> \o Stringify(rest)

\* JSON.parse(cacheData): the members are assigned in the order of the text
RECURSIVE ParseMembers(_, _)
ParseMembers(members, cache) ==
    IF members = <<>> THEN cache
    ELSE ParseMembers(Tail(members),
                      CachePut(cache, Head(members)[1], Head(members)[2]))
JsonParse(members) == ParseMembers(members, EmptyCache)

\* the files the model starts from
StoredMembers ==
    {m \in UNION {[1..n -> StoredKeys \X {EmptyRecord, StoredRecord}] :
                     n \in 0..MaxStored} :
        \A i, j \in 1..Len(m) : i < j => KeyId(m[i][1]) < KeyId(m[j][1])}
StoredFiles ==
    {JsonFile(m) : m \in StoredMembers} \cup {AbsentFile, MalformedFile}

\* fileExistsInStorage(fileName) on a file: true when the file is there and
\* the check succeeds, false when there is none and whenever the check fails
FileExistsInStorage(present) == IF present THEN {TRUE, FALSE} ELSE {FALSE}

\* A call of loadNutritionCache or saveNutritionCache that awaits the
\* store: who called, where the call stands, and the file it holds (the
\* downloaded data of a load, the cacheData of a save).  A load awaits
\* fileExistsInStorage ("exists"), then the download ("download"), then
\* data.text() ("text"); a save awaits its upload.
LoadStages == {"exists", "download", "text"}
LoadCall(caller) ==
    [caller |-> caller, op |-> "load", stage |-> "exists", file |-> AbsentFile]
\* cacheString = JSON.stringify(nutritionCache), taken when the save is called
SaveCall(caller, cache) ==
    [caller |-> caller, op |-> "save", stage |-> "upload",
     file |-> JsonFile(Stringify(cache))]

\* What the next callback of a load makes of it, file being the file of the
\* store when the answer is given: the load at its next await, or the load
\* ended, its stage then saying how:
\*   "notFound"  fileExistsInStorage says false (no file, or its check failed)
\*   "downloadError"  download returns an error, thrown and caught
\*   "noData"  download returns neither data nor error
\*   "parseError"  JSON.parse throws, caught
\*   "loaded"  nutritionCache = JSON.parse(cacheData)
LoadAnswers(load, file) ==
    IF load.stage = "exists"
    THEN {[load EXCEPT !.stage = IF exists THEN "download" ELSE "notFound"] :
             exists \in FileExistsInStorage(file.kind # "absent")}
    ELSE IF load.stage = "download"
    THEN {[load EXCEPT !.stage = "downloadError"],
          [load EXCEPT !.stage = "noData"],
          [load EXCEPT !.stage = "text", !.file = file]}
    ELSE {[load EXCEPT !.stage = IF load.file.kind = "malformed"
                                 THEN "parseError" ELSE "loaded"]}

LoadEnd(outcome) == IF outcome = "loaded" THEN "loaded" ELSE "reset"

\* The catch of loadNutritionCache takes every error: nothing is rethrown.
LoadThrowsOnError(outcome) == outcome \in {"downloadError", "parseError"}
LoadThrows(outcome) == FALSE

\* nutritionCache as loadNutritionCache leaves it
CacheAfterLoad(old, file, outcome) ==
    IF outcome = "loaded" THEN JsonParse(file.members) ELSE EmptyCache

\* The answers of the lookup endpoint: an HTTP status and, for 200, the
\* envelope {success, html}.  html is "" (none), "norows" (a fragment without
\* any nutrient row) or "rows" (a nutrition-facts table).
Responses ==
    {[status |-> 200, success |-> TRUE, html |-> "rows"],
     [status |-> 200, success |-> TRUE, html |-> "norows"],
     [status |-> 200, success |-> FALSE, html |-> "rows"],
     [status |-> 200, success |-> TRUE, html |-> ""],
     [status |-> 404, success |-> FALSE, html |-> ""],
     [status |-> 429, success |-> FALSE, html |-> ""],
     [status |-> 500, success |-> FALSE, html |-> ""]}

\* the cheerio extraction of fetchNutrition, on the abstract fragments
ParseNutrition(html) == IF html = "rows" THEN FetchedRecord ELSE EmptyRecord

----------------------------------------------------------------------------
(* Pure helpers of collectNutritionData *)

SeqToSet(s) == {s[i] : i \in 1..Len(s)}

\* Array.prototype.slice(from, to) on a 0-based array kept as a sequence
Slice(s, from, to) ==
    LET hi == IF to < Len(s) THEN to ELSE Len(s)
    IN  IF from >= hi THEN <<>> ELSE [i \in 1..(hi - from) |-> s[from + i]]

\* Array.from(new Set(ids)): first occurrences, in input order
RECURSIVE DedupFrom(_, _)
DedupFrom(s, i) ==
    IF i > Len(s) THEN <<>>
    ELSE IF \E j \in 1..(i - 1) : s[j] = s[i]
         THEN DedupFrom(s, i + 1)
         ELSE <<s[i]>> \o DedupFrom(s, i + 1)

IsPositive(id) == id > 0

\* uniqueRecipeIds
UniqueRecipeIdsNoSet(ids) == SelectSeq(ids, IsPositive)
UniqueRecipeIds(ids) == SelectSeq(DedupFrom(ids, 1), IsPositive)

\* the filter of recipeIdsToFetch: !nutritionCache[recipeId.toString()]
NeedsFetchAlways(cache, id) == TRUE
NeedsFetch(cache, id) == ~HasEntry(cache, IdKey(id))

RecipeIdsToFetch(unique, cache, force) ==
    IF force THEN unique
    ELSE LET Test(id) == NeedsFetch(cache, id) IN SelectSeq(unique, Test)

\* recipeIdsToFetch.length === 0: the early return, before any batch
NothingToFetchNever(toFetch) == FALSE
NothingToFetch(toFetch) == Len(toFetch) = 0

\* number of slices of size n that cover len elements
NumSlicesFloor(len, n) == len \div n
NumSlices(len, n) == (len + n - 1) \div n

\* batches[b], 0-based b
Batch(toFetch, b) == Slice(toFetch, b * BATCH_SIZE, b * BATCH_SIZE + BATCH_SIZE)
NumBatches(toFetch) == NumSlices(Len(toFetch), BATCH_SIZE)

\* miniBatches[g] of a batch, 0-based g
MiniBatchOneMore(batch, g) ==
    Slice(batch, g * CONCURRENT_REQUESTS, g * CONCURRENT_REQUESTS + CONCURRENT_REQUESTS + 1)
MiniBatch(batch, g) ==
    Slice(batch, g * CONCURRENT_REQUESTS, g * CONCURRENT_REQUESTS + CONCURRENT_REQUESTS)
NumMiniBatches(batch) == NumSlices(Len(batch), CONCURRENT_REQUESTS)

\* batchIndex < batches.length - 1: another batch follows batch b
MoreBatchesAlways(toFetch, b) == TRUE
MoreBatches(toFetch, b) == b < NumBatches(toFetch) - 1

\* A fetch task is known by the position of its id in recipeIdsToFetch:
\* the positions are sliced exactly as the ids are.
Positions(toFetch) == [i \in 1..Len(toFetch) |-> i]
GroupTasks(toFetch, b, g) == SeqToSet(MiniBatch(Batch(Positions(toFetch), b), g))

----------------------------------------------------------------------------
(* fetchNutrition *)

\* the cache check at the head of fetchNutrition
CacheHitAlsoOnRefresh(cache, id, refresh) ==
    /\ HasEntry(cache, IdKey(id))
    /\ NumKeys(cache[IdKey(id)]) > 0
CacheHit(cache, id, refresh) ==
    /\ ~refresh
    /\ HasEntry(cache, IdKey(id))
    /\ NumKeys(cache[IdKey(id)]) > 0

\* axios resolves on a 2xx status and rejects with err.response otherwise
AxiosResolves(resp) == resp.status = 200

\* !data.success || !data.html
InvalidFormat(resp) == ~resp.success \/ resp.html = ""

\* "Save to cache only if we found some data"
ShouldCacheAlways(nutrition) == TRUE
ShouldCache(nutrition) == NumKeys(nutrition) > 0

\* err.response?.status === 404: return {}
IsNotFound(resp) == resp.status = 404

\* err.response?.status === 429 && retryCount < 3
ShouldRetryOnceMore(resp, retry) == resp.status = 429 /\ retry <= MaxRetries
ShouldRetry(resp, retry) == resp.status = 429 /\ retry < MaxRetries

\* the message of the error fetchNutrition throws (recipe id left out)
ErrorMessage(resp) ==
    IF AxiosResolves(resp) THEN "Invalid response format"
    ELSE IF resp.status = 429 THEN "Status: 429"
    ELSE "Status: 500"

\* How one answer ends the try block of fetchNutrition:
\*   "return"  the parsed record is returned (written to the cache if non-empty)
\*   "return404"  {} is returned
\*   "retry"  delay, then fetchNutrition(recipeId, retryCount + 1, refresh)
\*   "throw"  new Error(errorMessage)
FetchOutcome(resp, retry) ==
    IF AxiosResolves(resp)
    THEN IF InvalidFormat(resp) THEN "throw" ELSE "return"
    ELSE IF IsNotFound(resp) THEN "return404"
    ELSE IF ShouldRetry(resp, retry) THEN "retry"
    ELSE "throw"

----------------------------------------------------------------------------
(* The task callback of collectNutritionData, miniBatch.map(async ...) *)

\* await fetchNutrition(...) returned: result.fetchedCount++
TaskReturned(res) == [res EXCEPT !.fetchedCount = @ + 1]

\* catch (err): errorCount++, missingRecipes.push, errors.push
TaskThrewUncounted(res, id, msg) ==
    [res EXCEPT !.missingRecipes = Append(@, id),
                !.errors = Append(@, <<id, msg>>)]
TaskThrew(res, id, msg) ==
    [res EXCEPT !.errorCount = @ + 1,
                !.missingRecipes = Append(@, id),
                !.errors = Append(@, <<id, msg>>)]

\* The catch block sits inside the task, so a failed lookup leaves the
\* position of the run where it is: Promise.all never rejects.
PcAfterTaskErrorUncaught(p) == "returned"
PcAfterTaskError(p) == p

\* result.skippedCount = uniqueRecipeIds.length - recipeIdsToFetch.length
SkippedCountAll(unique, toFetch) == Len(unique)
SkippedCount(unique, toFetch) == Len(unique) - Len(toFetch)

\* result.success = result.errorCount < recipeIdsToFetch.length / 2
RunSuccessAtHalf(errorCount, attempted) == 2 * errorCount <= attempted
RunSuccess(errorCount, attempted) == 2 * errorCount < attempted

\* The outer catch of collectNutritionData takes an error thrown in the
\* body of the run (saveNutritionCache can throw), pushes the system error
\* and returns result.
SystemError(res) == [res EXCEPT !.errors = Append(@, <<0, "System error">>)]
PcAfterRunErrorUncaught == "raised"
PcAfterRunError == "returned"

\* Promise.all(promises) resolves when every task of the group has settled
SettledSuccessOnly(st) == st \in {"cached", "success"}
Settled(st) == st \in {"cached", "success", "empty", "notfound", "failed"}
GroupSettledAny(st, tasks) == \E t \in tasks : Settled(st[t])
GroupSettled(st, tasks) == \A t \in tasks : Settled(st[t])

----------------------------------------------------------------------------
(* Texts and objects of the menu extractor (src/hoyaeats_scheduler.ts).    *)
(* A text is the sequence of its characters, so that trim, includes and    *)
(* the slug are computed on it.  A JavaScript object is the sequence of    *)
(* its <<key, value>> members in insertion order.                          *)

\* String.prototype.trim, for the blank " "
RECURSIVE TrimLeft(_)
TrimLeft(s) == IF s # <<>> /\ Head(s) = " " THEN TrimLeft(Tail(s)) ELSE s
RECURSIVE TrimRight(_)
TrimRight(s) ==
    IF s # <<>> /\ s[Len(s)] = " " THEN TrimRight(SubSeq(s, 1, Len(s) - 1)) ELSE s
Trim(s) == TrimRight(TrimLeft(s))

\* String.prototype.includes
Includes(s, sub) ==
    \E i \in 0..(Len(s) - Len(sub)) : SubSeq(s, i + 1, i + Len(sub)) = sub

\* obj[key], key in obj, obj[key] = value
OHas(obj, key) == \E i \in 1..Len(obj) : obj[i][1] = key
OGet(obj, key) == obj[CHOOSE i \in 1..Len(obj) : obj[i][1] = key][2]
OPut(obj, key, value) ==
    IF OHas(obj, key)
    THEN [i \in 1..Len(obj) |-> IF obj[i][1] = key THEN <<key, value>> ELSE obj[i]]
    ELSE Append(obj, <<key, value>>)
OKeys(obj) == [i \in 1..Len(obj) |-> obj[i][1]]
OValues(obj) == [i \in 1..Len(obj) |-> obj[i][2]]

\* the texts of the model
TxBreakfast == <<"B", "r", "e", "a", "k", "f", "a", "s", "t">>
TxLunch == <<"L", "u", "n", "c", "h">>
TxDinner == <<"D", "i", "n", "n", "e", "r">>
TxAllDay == <<"A", "l", "l", " ", "D", "a", "y">>
TxUnknown == <<"U", "n", "k", "n", "o", "w", "n">>
TxMenu == <<"M", "e", "n", "u">>
TxOptions == <<"O", "p", "t", "i", "o", "n", "s">>
TxGrill == <<"G", "r", "i", "l", "l">>
TxDailyMenu == <<"D", "a", "i", "l", "y", " ">> \o TxMenu
TxBlank == <<" ">>
SubBreakfast == <<"b", "r", "e", "a", "k", "f", "a", "s", "t">>
SubLunch == <<"l", "u", "n", "c", "h">>
SubDinner == <<"d", "i", "n", "n", "e", "r">>

\* location identifiers: one of LOCATIONS, and identifiers that name meals
LocMccourt == <<"m", "c", "c", "o", "u", "r", "t">>
LocLunchbox == SubLunch \o <<"b", "o", "x">>
LocBreakfastLunch == SubBreakfast \o <<"-">> \o SubLunch
LocDinner == SubDinner
LocationIds == {LocMccourt, LocLunchbox, LocBreakfastLunch, LocDinner}

\* the default meal time of a location
DefaultMealTimeExact(location) ==
    IF location = SubBreakfast THEN TxBreakfast
    ELSE IF location = SubLunch THEN TxLunch
    ELSE IF location = SubDinner THEN TxDinner
    ELSE TxAllDay
DefaultMealTime(location) ==
    IF Includes(location, SubBreakfast) THEN TxBreakfast
    ELSE IF Includes(location, SubLunch) THEN TxLunch
    ELSE IF Includes(location, SubDinner) THEN TxDinner
    ELSE TxAllDay

----------------------------------------------------------------------------
(* generateSlug *)

UpperCase == <<"A", "B", "C", "D", "E", "F", "G", "H", "I", "J", "K", "L", "M",
               "N", "O", "P", "Q", "R", "S", "T", "U", "V", "W", "X", "Y", "Z">>
LowerCase == <<"a", "b", "c", "d", "e", "f", "g", "h", "i", "j", "k", "l", "m",
               "n", "o", "p", "q", "r", "s", "t", "u", "v", "w", "x", "y", "z">>
Digits == <<"0", "1", "2", "3", "4", "5", "6", "7", "8", "9">>
IsDigit(c) == \E i \in 1..Len(Digits) : Digits[i] = c
DigitValue(c) == (CHOOSE i \in 1..Len(Digits) : Digits[i] = c) - 1
IsSlugChar(c) == IsDigit(c) \/ \E i \in 1..Len(LowerCase) : LowerCase[i] = c

\* toLowerCase
LowerChar(c) ==
    IF \E i \in 1..Len(UpperCase) : UpperCase[i] = c
    THEN LowerCase[CHOOSE i \in 1..Len(UpperCase) : UpperCase[i] = c]
    ELSE c
ToLowerCase(s) == [i \in 1..Len(s) |-> LowerChar(s[i])]

\* replace(/[^a-z0-9]+/g, "-"): every run of other characters becomes one "-"
RECURSIVE ReplaceRuns(_, _)
ReplaceRuns(s, inRun) ==
    IF s = <<>> THEN <<>>
    ELSE IF IsSlugChar(Head(s)) THEN <<Head(s)>> \o ReplaceRuns(Tail(s), FALSE)
    ELSE IF inRun THEN ReplaceRuns(Tail(s), TRUE)
    ELSE <<"-">> \o ReplaceRuns(Tail(s), TRUE)

\* replace(/^-+|-+$/g, "")
RECURSIVE StripLeft(_)
StripLeft(s) == IF s # <<>> /\ Head(s) = "-" THEN StripLeft(Tail(s)) ELSE s
RECURSIVE StripRight(_)
StripRight(s) ==
    IF s # <<>> /\ s[Len(s)] = "-" THEN StripRight(SubSeq(s, 1, Len(s) - 1)) ELSE s

\* substring(0, n) and substring(max(0, length - n))
Prefix(s, n) == SubSeq(s, 1, IF Len(s) < n THEN Len(s) ELSE n)
Suffix(s, n) == SubSeq(s, (IF Len(s) < n THEN 0 ELSE Len(s) - n) + 1, Len(s))

\* the longest name part and the length of the id suffix
SlugNameLimit == 50
SlugIdSuffix == 6

TxItem == <<"i", "t", "e", "m", "-">>
TxZero == <<"0">>

\* generateSlug(name, recipeId); random is the text that
\* Math.random().toString(36).substring(2, 8) gives when it is called
GenerateSlug(name, recipeId, random) ==
    LET named == Prefix(StripRight(StripLeft(ReplaceRuns(ToLowerCase(name), FALSE))),
                        SlugNameLimit)
        slug == IF recipeId # <<>> /\ recipeId # TxZero
                THEN named \o <<"-">> \o Suffix(recipeId, SlugIdSuffix)
                ELSE named
    IN  IF slug = <<>>
        THEN TxItem \o (IF recipeId # <<>> THEN recipeId ELSE random)
        ELSE slug

\* parseInt(text) || 0, for texts without blanks and signs: the number of
\* the leading digits, 0 when there is none
RECURSIVE LeadingNumber(_, _)
LeadingNumber(s, acc) ==
    IF s = <<>> \/ ~IsDigit(Head(s)) THEN acc
    ELSE LeadingNumber(Tail(s), 10 * acc + DigitValue(Head(s)))
ParseIntOrZero(s) == LeadingNumber(s, 0)

----------------------------------------------------------------------------
(* fetchLocationPage *)

\* The document of a page, as far as fetchLocationPage looks at it:
\*   fault     "none", or why no result is built: "fetchError" (axios.get
\*             rejects) or "extractError" (a call of the extraction throws)
\*   tabs      the .c-tabs-nav__link elements: the text of the inner label
\*             and the aria-controls attribute ("" when missing)
\*   panels    the ids of the elements of the document
\*   headings  the elements matched by the heading selector: the text, and
\*             whether the next sibling is a menu list
\*   markers   the a.show-nutrition elements in document order: name,
\*             data-recipe, whether the class list has prop-vegan and so on,
\*             the station button text (<<>> without a station), the region
\*             the marker lies in ("body", a panel id or the list of a
\*             heading), and the text Math.random would give for its slug
SectionId(i) == "section-" \o ToString(i)
ListRegion(i) == "list-" \o ToString(i)

\* the detected periods: content id -> name, in insertion order
RECURSIVE TabPeriods(_, _)
TabPeriods(tabs, acc) ==
    IF tabs = <<>> THEN acc
    ELSE LET mealPeriod == Trim(Head(tabs).label)
             tabContentId == Head(tabs).controls
         IN  TabPeriods(Tail(tabs),
                        IF mealPeriod # <<>> /\ tabContentId # ""
                        THEN OPut(acc, tabContentId, mealPeriod) ELSE acc)

RECURSIVE HeadingPeriods(_, _, _)
HeadingPeriods(headings, index, acc) ==
    IF index >= Len(headings) THEN acc
    ELSE LET heading == Trim(headings[index + 1].text)
         IN  HeadingPeriods(headings, index + 1,
                 IF heading # <<>> /\ ~Includes(heading, TxMenu)
                                   /\ ~Includes(heading, TxOptions)
                 THEN OPut(acc, SectionId(index), heading) ELSE acc)

DetectMealPeriodsAllTiers(location, doc) ==
    LET found == HeadingPeriods(doc.headings, 0, TabPeriods(doc.tabs, <<>>))
    IN  IF found = <<>> THEN <<<<"default", DefaultMealTime(location)>>>> ELSE found
DetectMealPeriods(location, doc) ==
    LET fromTabs == TabPeriods(doc.tabs, <<>>)
        found == IF fromTabs = <<>> THEN HeadingPeriods(doc.headings, 0, <<>>)
                 ELSE fromTabs
    IN  IF found = <<>> THEN <<<<"default", DefaultMealTime(location)>>>> ELSE found

\* tabId.startsWith("section-"), and the index after it
IsSectionId(doc, tabId) == \E i \in 0..Len(doc.headings) : tabId = SectionId(i)
SectionIndex(doc, tabId) == CHOOSE i \in 0..Len(doc.headings) : tabId = SectionId(i)

\* tabContent.find("a.show-nutrition"): the markers of the content of a
\* period, the whole document when the content is not found
ContentMarkers(doc, tabId) ==
    LET InRegion(region) ==
            LET Inside(m) == m.region = region IN SelectSeq(doc.markers, Inside)
    IN  IF tabId = "default" THEN doc.markers
        ELSE IF IsSectionId(doc, tabId)
        THEN LET i == SectionIndex(doc, tabId)
             IN  IF i < Len(doc.headings) /\ doc.headings[i + 1].hasList
                 THEN InRegion(ListRegion(i)) ELSE doc.markers
        ELSE IF tabId \in doc.panels THEN InRegion(tabId) ELSE doc.markers

\* the FoodItem of a marker (timeFetched and the empty nutrition left out)
FoodItem(m) ==
    [name |-> Trim(m.name), recipeId |-> ParseIntOrZero(m.recipe),
     vegetarian |-> m.vegetarian, vegan |-> m.vegan, glutenFree |-> m.glutenFree]
StationOf(m) == IF m.station = <<>> THEN TxUnknown ELSE Trim(m.station)
ItemId(m) == GenerateSlug(Trim(m.name), m.recipe, m.random)

\* items.push(foodItem); itemIDs.push(itemID) on the station of the marker
PushItemIdFirst(stations, m) ==
    LET old == IF OHas(stations, StationOf(m)) THEN OGet(stations, StationOf(m))
               ELSE [items |-> <<>>, itemIDs |-> <<>>]
    IN  OPut(stations, StationOf(m),
             [items |-> Append(old.items, FoodItem(m)),
              itemIDs |-> <<ItemId(m)>> \o old.itemIDs])
PushItem(stations, m) ==
    LET old == IF OHas(stations, StationOf(m)) THEN OGet(stations, StationOf(m))
               ELSE [items |-> <<>>, itemIDs |-> <<>>]
    IN  OPut(stations, StationOf(m),
             [items |-> Append(old.items, FoodItem(m)),
              itemIDs |-> Append(old.itemIDs, ItemId(m))])

RECURSIVE PushItems(_, _)
PushItems(stations, ms) ==
    IF ms = <<>> THEN stations ELSE PushItems(PushItem(stations, Head(ms)), Tail(ms))

\* the loop "Process each meal period"
RECURSIVE ProcessPeriods(_, _, _)
ProcessPeriods(doc, periods, result) ==
    IF periods = <<>> THEN result
    ELSE LET tabId == Head(periods)[1]
             mealTime == Head(periods)[2]
             init == IF OHas(result, mealTime) THEN result
                     ELSE OPut(result, mealTime, [stations |-> <<>>])
             stations == PushItems(OGet(init, mealTime).stations,
                                   ContentMarkers(doc, tabId))
         IN  ProcessPeriods(doc, Tail(periods),
                            OPut(init, mealTime, [stations |-> stations]))

\* "If we still didn't find any items, try one more approach"
FinalFallbackRuns(mealPeriods) == Len(OKeys(mealPeriods)) = 0

FinalFallback(location, doc, periods, result) ==
    IF FinalFallbackRuns(result) /\ Len(doc.markers) > 0
    THEN LET fallbackMealTime ==
                 IF periods # <<>> THEN periods[1][2] ELSE DefaultMealTime(location)
         IN  OPut(result, fallbackMealTime,
                  [stations |-> PushItems(<<>>, doc.markers)])
    ELSE result

\* the mealPeriods of the result of fetchLocationPage(location, date)
EmptyMealPeriods == <<>>
FetchLocationPage(location, doc) ==
    IF doc.fault # "none" THEN EmptyMealPeriods
    ELSE LET periods == DetectMealPeriods(location, doc)
         IN  FinalFallback(location, doc, periods,
                           ProcessPeriods(doc, periods, <<>>))

----------------------------------------------------------------------------
(* State *)

VARIABLES
    recipeIds,        \* the argument recipeIds
    forceRefresh,     \* the argument forceRefresh
    store,            \* the cache file in the durable store
    nutritionCache,   \* the module-level cache
    loadedCache,      \* the cache as loadNutritionCache left it (history)
    loadOutcome,      \* whether the last loadNutritionCache parsed the file
                      \* ("loaded") or reset the cache ("reset") (history)
    ioLog,            \* the loads and saves so far, in order (history)
    pc,               \* where collectNutritionData stands, or a lookup loop of
                      \* the scheduler
    uniqueRecipeIds,
    recipeIdsToFetch,
    batchIndex,       \* 0-based, as in the code
    groupIndex,       \* 0-based index of the miniBatch within the batch
    status,           \* per task: the state of the fetch task
    retryCount,       \* per task: the retryCount of its fetchNutrition call
    lookups,          \* per task: axios.get calls issued so far (history)
    limited,          \* the ids the endpoint has answered with 429
    result,           \* the NutritionCollectorResult
    writeLog,         \* the cache writes of the run, as <<key, record>> (history)
    calls,            \* the direct calls of the cache operations and their
                      \* settlements, in order (history)
    cacheBefore,      \* nutritionCache before the last entry of calls (history)
    pendingCalls,     \* the loads and saves that await the store, each with
                      \* the file it has read or is writing
    location,         \* the location argument of fetchLocationPage
    document,         \* the document the page fetch answers with
    locationData,     \* the mealPeriods of the result of fetchLocationPage
    pagePc,           \* where the page extraction stands
    scrapePc,         \* the await at which scrapeAllLocations stands
    locationIndex,    \* 0-based index in LOCATIONS of the location at hand
    menuData,         \* menuData.locations of the date
    itemsMap,         \* the items map of the date
    processedAnyData,
    pages,            \* the fault of each page fetched for the date (history)
    slugName,         \* the argument name of generateSlug
    slugRecipeId,     \* the argument recipeId of generateSlug
    slugs,            \* what the calls of generateSlug returned (history)
    fnRecipeId,       \* the argument recipeId of a fetchNutrition call
    fnRetryCount,     \* its argument retryCount
    fnPc,             \* where the call stands
    fnWaits,          \* the waitTime of each back-off of the call, ms (history)
    artifacts,        \* the dates whose artifact <date>.json is in the store
    presentAtCheck,   \* the dates whose artifact was there when checked (history)
    reportedPresent,  \* the dates whose existence check answered true (history)
    checkIndex,       \* the dates of the window checked so far
    datesToProcess,
    dateIndex,        \* 0-based index in datesToProcess of the date at hand
    normalizedMenuData, \* the artifact of the date at hand, once built
    written,          \* the dates whose artifact the run has uploaded (history)
    uploadFailed,     \* the dates whose upload has failed in the run (history)
    scanIndex,        \* the pages scanned so far by processAllNutritionData
    allRecipeIds,     \* the ids processAllNutritionData has collected, in Set order
    extracted,        \* the fetchLocationPage calls so far, as
                      \* <<caller, locationId, date>> (history)
    authorization,    \* request.headers["authorization"]
    cronSecret,       \* process.env.CRON_SECRET
    response          \* what the handler has answered

vars == <<recipeIds, forceRefresh, store, nutritionCache, loadedCache,
          loadOutcome, ioLog, pc,
          uniqueRecipeIds, recipeIdsToFetch, batchIndex, groupIndex, status,
          retryCount, lookups, limited, result, writeLog, calls, cacheBefore, pendingCalls,
          location, document, locationData, pagePc,
          scrapePc, locationIndex, menuData, itemsMap, processedAnyData, pages,
          slugName, slugRecipeId, slugs,
          artifacts, presentAtCheck, reportedPresent, checkIndex, datesToProcess,
          dateIndex,
          normalizedMenuData, written, uploadFailed, scanIndex, allRecipeIds, extracted,
          authorization, cronSecret, response,
          fnRecipeId, fnRetryCount, fnPc, fnWaits>>

pageVars == <<location, document, locationData, pagePc>>
scrapeVars == <<scrapePc, locationIndex, menuData, itemsMap, processedAnyData, pages>>
slugVars == <<slugName, slugRecipeId, slugs>>
\* the variables of the operations that run apart from the collector, the
\* extractor and the orchestrator
fetchVars == <<fnRecipeId, fnRetryCount, fnPc, fnWaits>>
windowVars == <<artifacts, presentAtCheck, reportedPresent, checkIndex, datesToProcess,
                dateIndex, normalizedMenuData, written, uploadFailed, scanIndex, allRecipeIds>>
handlerVars == <<authorization, cronSecret, response>>
otherVars == <<slugVars, fetchVars, windowVars, handlerVars>>
sideVars == <<otherVars, extracted>>

\* Tasks are numbered by position in recipeIdsToFetch.
MaxTasks == MaxId + 2
Tasks == 1..MaxTasks

\* The code only compares ids with each other and with 0, so the general
\* inputs are taken up to a renaming of the positive ids: in a list the
\* positive ids make their first appearance in the order 1, 2, 3, ...
FirstAppearancesInOrder(s) ==
    \A i \in 1..Len(s) :
        s[i] > 1 => \E j \in 1..(i - 1) : s[j] = s[i] - 1
InputLists ==
    {s \in UNION {[1..n -> RecipeIdValues] : n \in 0..MaxLen} :
        FirstAppearancesInOrder(s)}

\* the list of all ids, long enough for several groups and batches,
\* followed by a repeated id and an id that is not positive
AllIds == [i \in 1..MaxId |-> i]
LongList == AllIds \o <<1, 0>>

\* no page is being extracted
NoDocument ==
    [fault |-> "none", tabs |-> <<>>, panels |-> {}, headings |-> <<>>,
     markers |-> <<>>]
InitNoPage ==
    /\ location = <<>>
    /\ document = NoDocument
    /\ locationData = EmptyMealPeriods
    /\ pagePc = "none"

InitialResult(ids) ==
    [success |-> FALSE, totalRecipes |-> Len(ids), fetchedCount |-> 0,
     skippedCount |-> 0, errorCount |-> 0, missingRecipes |-> <<>>,
     errors |-> <<>>]

\* scrapeAllLocations is not running
InitNoScrape ==
    /\ scrapePc = "none"
    /\ locationIndex = 0
    /\ menuData = <<>>
    /\ itemsMap = <<>>
    /\ processedAnyData = FALSE
    /\ pages = <<>>

InitNoRun ==
    /\ nutritionCache = EmptyCache
    /\ loadedCache = EmptyCache
    /\ loadOutcome = "none"
    /\ ioLog = <<>>
    /\ pc = "start"
    /\ uniqueRecipeIds = <<>>
    /\ recipeIdsToFetch = <<>>
    /\ batchIndex = 0
    /\ groupIndex = 0
    /\ status = [t \in Tasks |-> "idle"]
    /\ retryCount = [t \in Tasks |-> 0]
    /\ lookups = [t \in Tasks |-> 0]
    /\ limited = {}
    /\ result = InitialResult(recipeIds)
    /\ writeLog = {}
    /\ calls = <<>>
    /\ cacheBefore = EmptyCache

\* generateSlug is not called
InitNoSlug ==
    /\ slugName = <<>>
    /\ slugRecipeId = <<>>
    /\ slugs = <<>>
\* fetchNutrition is not called on its own
InitNoFetch ==
    /\ fnRecipeId = 0
    /\ fnRetryCount = 0
    /\ fnPc = "none"
    /\ fnWaits = <<>>
\* no artifact of a date is built
NoArtifact == [date |-> "none", locations |-> <<>>, items |-> <<>>]
\* scrapeAllLocations has not looked at the dates
InitNoWindow ==
    /\ presentAtCheck = {}
    /\ reportedPresent = {}
    /\ checkIndex = 0
    /\ datesToProcess = <<>>
    /\ dateIndex = 0
    /\ normalizedMenuData = NoArtifact
    /\ written = {}
    /\ uploadFailed = {}
    /\ scanIndex = 0
    /\ allRecipeIds = <<>>
    /\ extracted = {}
\* no request, and no answer of the handler
NoHeader == <<>>
NoResponse == [status |-> 0, body |-> "none"]
InitNoHandler ==
    /\ authorization = NoHeader
    /\ cronSecret = ""
    /\ response = NoResponse
\* neither the handler nor scrapeAllLocations is at work
InitNoOrch == InitNoWindow /\ artifacts = {} /\ InitNoHandler
InitNoSide == InitNoSlug /\ InitNoFetch /\ InitNoOrch

\* no call awaits the store
InitNoCalls == pendingCalls = <<>>

\* collectNutritionData has been called and awaits its loadNutritionCache
InitRun ==
    /\ InitNoRun
    /\ pendingCalls = <<LoadCall("run")>>
    /\ InitNoPage
    /\ InitNoScrape
    /\ InitNoSide

\* A run on any short list against any file, or a run on the long list
\* without a file and without force-refresh.
Init ==
    /\ \/ /\ recipeIds \in InputLists
          /\ forceRefresh \in BOOLEAN
          /\ store \in StoredFiles
       \/ /\ recipeIds = LongList
          /\ forceRefresh = FALSE
          /\ store = AbsentFile
    /\ InitRun

\* the call of caller that awaits the store (a caller has one at a time)
IsPending(caller, op) ==
    \E i \in 1..Len(pendingCalls) :
        pendingCalls[i].caller = caller /\ pendingCalls[i].op = op
PendingIndex(caller, op) ==
    CHOOSE i \in 1..Len(pendingCalls) :
        pendingCalls[i].caller = caller /\ pendingCalls[i].op = op
RemoveAt(s, i) == SubSeq(s, 1, i - 1) \o SubSeq(s, i + 1, Len(s))

\* The tasks of miniBatch g of batch b are created: each runs fetchNutrition
\* (id, 0, forceRefresh) up to its first await, so every lookup of the group
\* is issued before anything else happens.
StartGroup(toFetch, cache, b, g) ==
    LET group == GroupTasks(toFetch, b, g)
        hits == {t \in group : CacheHit(cache, toFetch[t], forceRefresh)}
    IN  /\ batchIndex' = b
        /\ groupIndex' = g
        /\ status' = [t \in Tasks |->
                        IF t \in hits THEN "cached"
                        ELSE IF t \in group THEN "fetching"
                        ELSE status[t]]
        /\ retryCount' = [t \in Tasks |-> IF t \in group THEN 0 ELSE retryCount[t]]
        /\ lookups' = [t \in Tasks |->
                        IF t \in group \ hits THEN lookups[t] + 1 ELSE lookups[t]]
        /\ result' = [result EXCEPT !.fetchedCount = @ + Cardinality(hits)]
        /\ pc' = "awaitGroup"

\* The next callback of await loadNutritionCache() at the entry of
\* collectNutritionData: the load goes on to its next await, or it ends and
\* the run goes on to the first group (or to the early return): the
\* assignment of the cache, the two filters, the batches.
Load ==
    /\ pc = "start"
    /\ LET i == PendingIndex("run", "load")
       IN  \E load \in LoadAnswers(pendingCalls[i], store) :
             IF load.stage \in LoadStages
             THEN /\ pendingCalls' = [pendingCalls EXCEPT ![i] = load]
                  /\ UNCHANGED <<nutritionCache, loadedCache, loadOutcome, ioLog,
                                 uniqueRecipeIds, recipeIdsToFetch, result, pc,
                                 batchIndex, groupIndex, status, retryCount, lookups>>
             ELSE LET outcome == load.stage
                      cache == CacheAfterLoad(nutritionCache, load.file, outcome)
                      unique == UniqueRecipeIds(recipeIds)
                      toFetch == RecipeIdsToFetch(unique, cache, forceRefresh)
                  IN  /\ pendingCalls' = RemoveAt(pendingCalls, i)
                      /\ nutritionCache' = cache
                      /\ loadedCache' = cache
                      /\ loadOutcome' = LoadEnd(outcome)
                      /\ ioLog' = Append(ioLog, "load")
                      /\ uniqueRecipeIds' = unique
                      /\ recipeIdsToFetch' = toFetch
                      /\ IF LoadThrows(outcome)
                         THEN /\ result' = SystemError(result)
                              /\ pc' = PcAfterRunError
                              /\ UNCHANGED <<batchIndex, groupIndex, status, retryCount, lookups>>
                         ELSE IF NothingToFetch(toFetch)
                         THEN /\ result' = [result EXCEPT !.skippedCount = Len(unique),
                                                          !.success = TRUE]
                              /\ pc' = "returned"
                              /\ UNCHANGED <<batchIndex, groupIndex, status, retryCount, lookups>>
                         ELSE StartGroup(toFetch, cache, 0, 0)
    /\ UNCHANGED <<pageVars, scrapeVars, sideVars, calls, cacheBefore, recipeIds, forceRefresh, store, limited, writeLog>>

\* The answer to the lookup of task t arrives: the rest of fetchNutrition's
\* try block or its catch block, and, when fetchNutrition settles, the rest
\* of the task callback.
Respond(t, resp) ==
    /\ status[t] = "fetching"
    /\ resp.status = 429 =>
          \/ recipeIdsToFetch[t] \in limited
          \/ Cardinality(limited) < MaxLimited
    /\ limited' = IF resp.status = 429 THEN limited \cup {recipeIdsToFetch[t]} ELSE limited
    /\ LET id == recipeIdsToFetch[t]
           outcome == FetchOutcome(resp, retryCount[t])
           nutrition == ParseNutrition(resp.html)
       IN  CASE outcome = "return" ->
                  /\ IF ShouldCache(nutrition)
                     THEN /\ nutritionCache' = CachePut(nutritionCache, IdKey(id), nutrition)
                          /\ writeLog' = writeLog \cup {<<IdKey(id), nutrition>>}
                     ELSE /\ nutritionCache' = CacheAfterMiss(nutritionCache, IdKey(id))
                          /\ UNCHANGED writeLog
                  /\ status' = [status EXCEPT ![t] =
                                   IF NumKeys(nutrition) > 0 THEN "success" ELSE "empty"]
                  /\ result' = TaskReturned(result)
                  /\ UNCHANGED pc
            [] outcome = "return404" ->
                  /\ status' = [status EXCEPT ![t] = "notfound"]
                  /\ result' = TaskReturned(result)
                  /\ nutritionCache' = CacheAfterMiss(nutritionCache, IdKey(id))
                  /\ UNCHANGED <<writeLog, pc>>
            [] outcome = "retry" ->
                  /\ status' = [status EXCEPT ![t] = "backoff"]
                  /\ UNCHANGED <<nutritionCache, writeLog, result, pc>>
            [] outcome = "throw" ->
                  /\ status' = [status EXCEPT ![t] = "failed"]
                  /\ result' = TaskThrew(result, id, ErrorMessage(resp))
                  /\ pc' = PcAfterTaskError(pc)
                  /\ nutritionCache' = CacheAfterMiss(nutritionCache, IdKey(id))
                  /\ UNCHANGED writeLog
    /\ UNCHANGED <<pageVars, scrapeVars, sideVars, calls, cacheBefore, pendingCalls, recipeIds, forceRefresh, store,
                   loadedCache, loadOutcome, ioLog,
                   uniqueRecipeIds, recipeIdsToFetch, batchIndex, groupIndex,
                   retryCount, lookups>>

\* The back-off delay of task t is over: fetchNutrition(id, retryCount + 1,
\* refresh) runs up to its await.
Retry(t) ==
    /\ status[t] = "backoff"
    /\ retryCount' = [retryCount EXCEPT ![t] = @ + 1]
    /\ IF CacheHit(nutritionCache, recipeIdsToFetch[t], forceRefresh)
       THEN /\ status' = [status EXCEPT ![t] = "cached"]
            /\ result' = TaskReturned(result)
            /\ UNCHANGED lookups
       ELSE /\ status' = [status EXCEPT ![t] = "fetching"]
            /\ lookups' = [lookups EXCEPT ![t] = @ + 1]
            /\ UNCHANGED result
    /\ UNCHANGED <<pageVars, scrapeVars, sideVars, calls, cacheBefore, pendingCalls, recipeIds, forceRefresh, store, nutritionCache,
                   loadedCache,
                   loadOutcome, ioLog, pc, uniqueRecipeIds, recipeIdsToFetch,
                   batchIndex, groupIndex, limited, writeLog>>

CurrentGroup == GroupTasks(recipeIdsToFetch, batchIndex, groupIndex)

\* await Promise.all(promises) resumes; delay(DELAY_BETWEEN_ITEMS) starts
GroupBarrier ==
    /\ pc = "awaitGroup"
    /\ GroupSettled(status, CurrentGroup)
    /\ pc' = "itemDelay"
    /\ UNCHANGED <<pageVars, scrapeVars, sideVars, calls, cacheBefore, pendingCalls, recipeIds, forceRefresh, store, nutritionCache,
                   loadedCache,
                   loadOutcome, ioLog, uniqueRecipeIds, recipeIdsToFetch,
                   batchIndex, groupIndex, status, retryCount, lookups, limited,
                   result, writeLog>>

\* delay(DELAY_BETWEEN_ITEMS) is over: the next group of the batch, or the end
\* of the batch (the inter-batch delay, or, after the last batch,
\* saveNutritionCache up to its await: the cache is serialised)
AfterItemDelay ==
    /\ pc = "itemDelay"
    /\ IF groupIndex + 1 < NumMiniBatches(Batch(recipeIdsToFetch, batchIndex))
       THEN /\ StartGroup(recipeIdsToFetch, nutritionCache, batchIndex, groupIndex + 1)
            /\ UNCHANGED pendingCalls
       ELSE /\ pc' = IF MoreBatches(recipeIdsToFetch, batchIndex)
                     THEN "batchDelay" ELSE "saving"
            /\ pendingCalls' = IF MoreBatches(recipeIdsToFetch, batchIndex)
                           THEN pendingCalls
                           ELSE Append(pendingCalls, SaveCall("run", nutritionCache))
            /\ UNCHANGED <<batchIndex, groupIndex, status, retryCount, lookups, result>>
    /\ UNCHANGED <<pageVars, scrapeVars, sideVars, calls, cacheBefore, recipeIds, forceRefresh, store, nutritionCache,
                   loadedCache,
                   loadOutcome, ioLog, uniqueRecipeIds, recipeIdsToFetch, limited,
                   writeLog>>

\* delay(DELAY_BETWEEN_BATCHES) is over: the first group of the next batch
AfterBatchDelay ==
    /\ pc = "batchDelay"
    /\ StartGroup(recipeIdsToFetch, nutritionCache, batchIndex + 1, 0)
    /\ UNCHANGED <<pageVars, scrapeVars, sideVars, calls, cacheBefore, pendingCalls, recipeIds, forceRefresh, store, nutritionCache,
                   loadedCache,
                   loadOutcome, ioLog, uniqueRecipeIds, recipeIdsToFetch, limited,
                   writeLog>>

\* the upload of saveNutritionCache settles: the file is the uploaded
\* cacheData, then the final results and return result; or the outer catch
\* when the upload failed
SaveDone(ok) ==
    /\ pc = "saving"
    /\ ioLog' = Append(ioLog, IF ok THEN "save" ELSE "saveError")
    /\ pendingCalls' = RemoveAt(pendingCalls, PendingIndex("run", "save"))
    /\ IF ok
       THEN /\ store' = pendingCalls[PendingIndex("run", "save")].file
            /\ result' = [result EXCEPT
                  !.skippedCount = SkippedCount(uniqueRecipeIds, recipeIdsToFetch),
                  !.success = RunSuccess(result.errorCount, Len(recipeIdsToFetch))]
            /\ pc' = "returned"
       ELSE /\ store' = store
            /\ result' = SystemError(result)
            /\ pc' = PcAfterRunError
    /\ UNCHANGED <<pageVars, scrapeVars, sideVars, calls, cacheBefore, loadOutcome, recipeIds, forceRefresh,
                   nutritionCache, loadedCache,
                   uniqueRecipeIds, recipeIdsToFetch, batchIndex, groupIndex, status,
                   retryCount, lookups, limited, writeLog>>

Next ==
    \/ Load
    \/ \E t \in Tasks, resp \in Responses : Respond(t, resp)
    \/ \E t \in Tasks : Retry(t)
    \/ GroupBarrier
    \/ AfterItemDelay
    \/ AfterBatchDelay
    \/ \E ok \in BOOLEAN : SaveDone(ok)

Spec == Init /\ [][Next]_vars

\* The planning part of collectNutritionData alone (entry to the first
\* group), on every list of at most MaxId + 1 ids, repeated and
\* non-positive ids included (up to the renaming of InputLists), against
\* every file.
PlanLists ==
    {s \in UNION {[1..n -> RecipeIdValues] : n \in 0..(MaxId + 1)} :
        FirstAppearancesInOrder(s)}
InitPlan ==
    /\ recipeIds \in PlanLists
    /\ forceRefresh \in BOOLEAN
    /\ store \in StoredFiles
    /\ InitRun
NextPlan == Load
SpecPlan == InitPlan /\ [][NextPlan]_vars

\* A run of one batch in which every network call and every delay returns:
\* a pending step of the run is eventually taken.  The run is on any short
\* list or on a list one longer than a concurrency group, without a file;
\* none of them is longer than a batch, so no inter-batch delay is taken.
FairList == [i \in 1..(CONCURRENT_REQUESTS + 1) |-> i]
InitFair ==
    /\ recipeIds \in InputLists \cup {FairList}
    /\ forceRefresh = FALSE
    /\ store = AbsentFile
    /\ InitRun
NextOneBatch ==
    \/ Load
    \/ \E t \in Tasks, resp \in Responses : Respond(t, resp)
    \/ \E t \in Tasks : Retry(t)
    \/ GroupBarrier
    \/ AfterItemDelay
    \/ \E ok \in BOOLEAN : SaveDone(ok)
SpecFair == InitFair /\ [][NextOneBatch]_vars /\ WF_vars(NextOneBatch)

\* A run, forced or not, on a list with a repeated id and an id that is not
\* positive, against a file that holds a record of recipe 1: the id is
\* skipped when the file is loaded and the run is not forced.  The runs
\* have one batch, of one or two groups.
AccountList == FairList \o <<1, 0>>
InitAccount ==
    /\ recipeIds = AccountList
    /\ forceRefresh \in BOOLEAN
    /\ store = JsonFile(<<<<IdKey(1), StoredRecord>>>>)
    /\ InitRun

SpecAccount == InitAccount /\ [][NextOneBatch]_vars

\* The other callers on the process of the run: getCacheStatus and the
\* exported loadNutritionCache (caller "other", a load), the exported
\* saveNutritionCache (caller "other", a save) and a second
\* collectNutritionData (caller "second").  They share the module-level
\* cache with the run, they can be called while the run is suspended and
\* after it has returned, and what they await settles whenever the store
\* or the endpoint answers.  MaxOtherPending bounds how many of their calls
\* are in flight together.
MaxOtherPending == 1
OthersPending ==
    {i \in 1..Len(pendingCalls) : pendingCalls[i].caller \in {"other", "second"}}
OtherMayCall == Cardinality(OthersPending) < MaxOtherPending

\* what the steps of the other callers leave unchanged
othersFrame ==
    <<recipeIds, forceRefresh, loadedCache, loadOutcome, ioLog, pc, uniqueRecipeIds,
      recipeIdsToFetch, batchIndex, groupIndex, status, retryCount, lookups,
      limited, result, writeLog, calls, cacheBefore, pageVars, scrapeVars, sideVars>>

\* loadNutritionCache runs for another caller, getCacheStatus or a caller
\* of the export: one step is the call or the next callback of the load.
OtherLoad ==
    /\ IF ~IsPending("other", "load")
       THEN /\ OtherMayCall
            /\ pendingCalls' = Append(pendingCalls, LoadCall("other"))
            /\ UNCHANGED nutritionCache
       ELSE LET i == PendingIndex("other", "load")
            IN  \E load \in LoadAnswers(pendingCalls[i], store) :
                  IF load.stage \in LoadStages
                  THEN /\ pendingCalls' = [pendingCalls EXCEPT ![i] = load]
                       /\ UNCHANGED nutritionCache
                  ELSE /\ pendingCalls' = RemoveAt(pendingCalls, i)
                       /\ nutritionCache' =
                            CacheAfterLoad(nutritionCache, load.file, load.stage)
    /\ UNCHANGED <<store, othersFrame>>

\* saveNutritionCache runs for a caller of the export: the call, which
\* serialises the cache, or the settlement of its upload.
OtherSave(ok) ==
    /\ IF ~IsPending("other", "save")
       THEN /\ OtherMayCall
            /\ pendingCalls' = Append(pendingCalls, SaveCall("other", nutritionCache))
            /\ UNCHANGED store
       ELSE LET i == PendingIndex("other", "save")
            IN  /\ pendingCalls' = RemoveAt(pendingCalls, i)
                /\ store' = IF ok THEN pendingCalls[i].file ELSE store
    /\ UNCHANGED <<nutritionCache, othersFrame>>

\* A second collectNutritionData(SecondRunIds, force) on the process.  Its
\* list has one id, so it has one batch of one miniBatch of one task.  The
\* await it stands at is an entry of pendingCalls: op says which await
\* ("load", "lookup", "delay", "save"), stage where it stands in it, and
\* the entry carries the argument forceRefresh and the retryCount of the
\* fetchNutrition call.
SecondRunIds == <<2>>
SecondRunAt(op) == IsPending("second", op)

\* the call: up to await fileExistsInStorage of loadNutritionCache
SecondRunCalled(force) ==
    /\ \A i \in 1..Len(pendingCalls) : pendingCalls[i].caller # "second"
    /\ OtherMayCall
    /\ pendingCalls' = Append(pendingCalls,
          [caller |-> "second", op |-> "load", stage |-> "exists",
           file |-> AbsentFile, forceRefresh |-> force, retryCount |-> 0])
    /\ UNCHANGED <<store, nutritionCache, othersFrame>>

\* the next callback of its load: the load goes on, or it ends and the run
\* filters its list and returns early or starts its task, which runs
\* fetchNutrition up to await axios.get
SecondRunLoaded ==
    /\ SecondRunAt("load")
    /\ LET i == PendingIndex("second", "load")
       IN  \E load \in LoadAnswers(pendingCalls[i], store) :
             IF load.stage \in LoadStages
             THEN /\ pendingCalls' = [pendingCalls EXCEPT ![i] = load]
                  /\ UNCHANGED nutritionCache
             ELSE LET cache == CacheAfterLoad(nutritionCache, load.file, load.stage)
                      toFetch == RecipeIdsToFetch(UniqueRecipeIds(SecondRunIds),
                                                  cache, load.forceRefresh)
                  IN  /\ nutritionCache' = cache
                      /\ pendingCalls' =
                           IF NothingToFetch(toFetch)
                           THEN RemoveAt(pendingCalls, i)
                           ELSE [pendingCalls EXCEPT ![i] =
                                    [load EXCEPT !.op = "lookup", !.stage = "fetching",
                                                 !.file = AbsentFile]]
    /\ UNCHANGED <<store, othersFrame>>

\* the answer to its lookup: the rest of fetchNutrition and of the task;
\* when the task has settled, Promise.all resumes and the delay starts
SecondRunAnswered(resp) ==
    /\ SecondRunAt("lookup")
    /\ LET i == PendingIndex("second", "lookup")
           call == pendingCalls[i]
           outcome == FetchOutcome(resp, call.retryCount)
           nutrition == ParseNutrition(resp.html)
       IN  /\ call.stage = "fetching"
           /\ nutritionCache' =
                IF outcome = "return" /\ ShouldCache(nutrition)
                THEN CachePut(nutritionCache, IdKey(SecondRunIds[1]), nutrition)
                ELSE nutritionCache
           /\ pendingCalls' = [pendingCalls EXCEPT ![i] =
                IF outcome = "retry" THEN [call EXCEPT !.stage = "backoff"]
                ELSE [call EXCEPT !.op = "delay", !.stage = "item", !.retryCount = 0]]
    /\ UNCHANGED <<store, othersFrame>>

\* await delay(waitTime) is over: fetchNutrition(recipeId, retryCount + 1,
\* refresh) finds the record in the cache and returns it, so that the task
\* settles and the delay starts, or runs up to its await
SecondRunRetried ==
    /\ SecondRunAt("lookup")
    /\ LET i == PendingIndex("second", "lookup")
           call == pendingCalls[i]
       IN  /\ call.stage = "backoff"
           /\ pendingCalls' = [pendingCalls EXCEPT ![i] =
                IF CacheHit(nutritionCache, SecondRunIds[1], call.forceRefresh)
                THEN [call EXCEPT !.op = "delay", !.stage = "item", !.retryCount = 0]
                ELSE [call EXCEPT !.stage = "fetching", !.retryCount = @ + 1]]
    /\ UNCHANGED <<store, nutritionCache, othersFrame>>

\* delay(DELAY_BETWEEN_ITEMS) is over: saveNutritionCache up to its await
SecondRunDelayDone ==
    /\ SecondRunAt("delay")
    /\ LET i == PendingIndex("second", "delay")
       IN  pendingCalls' = [pendingCalls EXCEPT ![i] =
              [@ EXCEPT !.op = "save", !.stage = "upload",
                        !.file = JsonFile(Stringify(nutritionCache))]]
    /\ UNCHANGED <<store, nutritionCache, othersFrame>>

\* the upload of its save settles, and the second run returns
SecondRunSaved(ok) ==
    /\ SecondRunAt("save")
    /\ LET i == PendingIndex("second", "save")
       IN  /\ store' = IF ok THEN pendingCalls[i].file ELSE store
           /\ pendingCalls' = RemoveAt(pendingCalls, i)
    /\ UNCHANGED <<nutritionCache, othersFrame>>

SecondRun ==
    \/ \E force \in BOOLEAN : SecondRunCalled(force)
    \/ SecondRunLoaded
    \/ \E resp \in Responses : SecondRunAnswered(resp)
    \/ SecondRunRetried
    \/ SecondRunDelayDone
    \/ \E ok \in BOOLEAN : SecondRunSaved(ok)

\* A run on a short list, against no file or the file with a record of
\* recipe 1, interleaved with the calls of the other callers.
InitShared ==
    /\ recipeIds = <<1, 2>>
    /\ forceRefresh \in BOOLEAN
    /\ store \in {AbsentFile, JsonFile(<<<<IdKey(1), StoredRecord>>>>)}
    /\ InitRun

NextShared ==
    \/ NextOneBatch
    \/ OtherLoad
    \/ \E ok \in BOOLEAN : OtherSave(ok)
    \/ SecondRun

SpecShared == InitShared /\ [][NextShared]_vars

----------------------------------------------------------------------------
(* The cache operations called directly: loadNutritionCache and            *)
(* saveNutritionCache are exported, and fetchNutrition writes the cache.   *)

\* the ids and records a direct write is made with
PutIds == 1..(MaxStored + 1)
PutRecords == {EmptyRecord, StoredRecord, FetchedRecord}

Call(op, key, record, outcome) ==
    [op |-> op, key |-> key, record |-> record, outcome |-> outcome]

InitCache ==
    /\ recipeIds = <<>>
    /\ forceRefresh = FALSE
    /\ store \in StoredFiles
    /\ InitNoRun
    /\ InitNoCalls
    /\ InitNoPage
    /\ InitNoScrape
    /\ InitNoSide

runVars == <<recipeIds, forceRefresh, pc, uniqueRecipeIds, recipeIdsToFetch,
             batchIndex, groupIndex, status, retryCount, lookups, limited,
             result, ioLog, pageVars, scrapeVars, sideVars>>

\* The calls of a client need not be awaited one after the other: a load or
\* a save that was called is in flight until it settles, and the client can
\* call again in between.  calls holds an entry for each call (outcome
\* "called", or "done" for the write, which does not wait) and one for each
\* settlement of a load or a save (with its outcome).
NumIssued ==
    Cardinality({i \in 1..Len(calls) : calls[i].outcome \in {"called", "done"}})

\* loadNutritionCache() is called: fileExistsInStorage is asked
CallLoad ==
    /\ NumIssued < MaxCalls
    /\ pendingCalls' = Append(pendingCalls, LoadCall("client"))
    /\ calls' = Append(calls, Call("load", "", EmptyRecord, "called"))
    /\ cacheBefore' = nutritionCache
    /\ UNCHANGED <<store, nutritionCache, loadedCache, loadOutcome, writeLog, runVars>>

\* the next callback of a load in flight: it goes on to its next await, or
\* it assigns the parsed file, or the empty cache, and returns
LoadAnswered(i) ==
    /\ i \in 1..Len(pendingCalls)
    /\ pendingCalls[i].op = "load"
    /\ \E load \in LoadAnswers(pendingCalls[i], store) :
          IF load.stage \in LoadStages
          THEN /\ pendingCalls' = [pendingCalls EXCEPT ![i] = load]
               /\ UNCHANGED <<nutritionCache, loadedCache, loadOutcome, calls,
                              cacheBefore>>
          ELSE /\ pendingCalls' = RemoveAt(pendingCalls, i)
               /\ nutritionCache' =
                    CacheAfterLoad(nutritionCache, load.file, load.stage)
               /\ loadOutcome' = LoadEnd(load.stage)
               /\ loadedCache' = nutritionCache'
               /\ calls' = Append(calls, Call("load", "", EmptyRecord, load.stage))
               /\ cacheBefore' = nutritionCache
    /\ UNCHANGED <<store, writeLog, runVars>>

\* saveNutritionCache() is called: the cache is serialised and the upload
\* is asked for
CallSave ==
    /\ NumIssued < MaxCalls
    /\ pendingCalls' = Append(pendingCalls, SaveCall("client", nutritionCache))
    /\ calls' = Append(calls, Call("save", "", EmptyRecord, "called"))
    /\ cacheBefore' = nutritionCache
    /\ UNCHANGED <<store, nutritionCache, loadedCache, loadOutcome, writeLog, runVars>>

\* the upload settles: the file is the uploaded cacheData, or the error is
\* rethrown
SaveSettled(i, ok) ==
    /\ i \in 1..Len(pendingCalls)
    /\ pendingCalls[i].op = "save"
    /\ store' = IF ok THEN pendingCalls[i].file ELSE store
    /\ calls' = Append(calls, Call("save", "", EmptyRecord,
                                   IF ok THEN "saved" ELSE "saveError"))
    /\ cacheBefore' = nutritionCache
    /\ pendingCalls' = RemoveAt(pendingCalls, i)
    /\ UNCHANGED <<nutritionCache, loadedCache, loadOutcome, writeLog, runVars>>

\* the write of fetchNutrition: "Save to cache only if we found some data"
CallPut(id, nutrition) ==
    /\ NumIssued < MaxCalls
    /\ IF ShouldCache(nutrition)
       THEN /\ nutritionCache' = CachePut(nutritionCache, IdKey(id), nutrition)
            /\ writeLog' = writeLog \cup {<<IdKey(id), nutrition>>}
       ELSE UNCHANGED <<nutritionCache, writeLog>>
    /\ calls' = Append(calls, Call("put", IdKey(id), nutrition, "done"))
    /\ cacheBefore' = nutritionCache
    /\ UNCHANGED <<store, loadedCache, loadOutcome, pendingCalls, runVars>>

NextCache ==
    \/ CallLoad
    \/ \E i \in 1..MaxCalls : LoadAnswered(i)
    \/ CallSave
    \/ \E i \in 1..MaxCalls, ok \in BOOLEAN : SaveSettled(i, ok)
    \/ \E id \in PutIds, nutrition \in PutRecords : CallPut(id, nutrition)

SpecCache == InitCache /\ [][NextCache]_vars

----------------------------------------------------------------------------
(* fetchLocationPage on one page *)

Tab(label, controls) == [label |-> label, controls |-> controls]
Heading(text, hasList) == [text |-> text, hasList |-> hasList]

\* the tab bars: none, a tab with its panel id, tabs that lack the label or
\* the content id
TabLists ==
    {<<>>, <<Tab(TxLunch, "t1")>>, <<Tab(TxBlank, "t1")>>, <<Tab(TxDinner, "")>>,
     <<Tab(TxBlank, "t1"), Tab(TxDinner, "t1")>>}
PanelSets == SUBSET {"t1"}

\* the tab bars of two usable tabs: two labels and two content ids, one
\* label on two content ids, two labels on one content id
TwoTabLists ==
    {<<Tab(TxLunch, "t1"), Tab(TxDinner, "t2")>>,
     <<Tab(TxLunch, "t1"), Tab(TxLunch, "t2")>>,
     <<Tab(TxLunch, "t1"), Tab(TxDinner, "t1")>>}
TwoPanelSets == SUBSET {"t1", "t2"}

\* the headings: none, a heading with or without a list, a generic heading
HeadingLists ==
    {<<>>, <<Heading(TxGrill, TRUE)>>, <<Heading(TxGrill, FALSE)>>,
     <<Heading(TxDailyMenu, TRUE)>>}

\* two headings with the same text, the first with or without a list
TwoHeadingLists ==
    {<<Heading(TxGrill, TRUE), Heading(TxGrill, FALSE)>>,
     <<Heading(TxGrill, FALSE), Heading(TxGrill, FALSE)>>}

\* the markers
TxEggs == <<"E", "g", "g", "s">>
TxMacCheese == <<"M", "a", "c", " ", "&", " ", "C", "h", "e", "e", "s", "e", " ">>
TxTwelve == <<"1", "2">>
TxRandom == <<"k", "3", "x", "9", "q", "z">>
TxRandomAgain == <<"a", "b", "c", "1", "2", "3">>
Randoms == {TxRandom, TxRandomAgain}
Regions == {"body", "t1", "t2", ListRegion(0)}
Markers ==
    {[name |-> TxEggs, recipe |-> TxTwelve, vegetarian |-> TRUE, vegan |-> FALSE,
      glutenFree |-> FALSE, station |-> st, region |-> r, random |-> TxRandom]
        : st \in {<<>>, TxGrill}, r \in Regions}
    \cup
    {[name |-> TxMacCheese, recipe |-> <<>>, vegetarian |-> FALSE, vegan |-> FALSE,
      glutenFree |-> TRUE, station |-> st, region |-> r, random |-> TxRandom]
        : st \in {<<>>, TxGrill}, r \in Regions}
MarkerLists == UNION {[1..n -> Markers] : n \in 0..MaxMarkers}

\* a marker lies in a panel or in a list only if the document has it
WellFormed(doc) ==
    \A i \in 1..Len(doc.markers) :
        \/ doc.markers[i].region = "body"
        \/ doc.markers[i].region \in doc.panels
        \/ \E h \in 1..Len(doc.headings) :
              doc.headings[h].hasList /\ doc.markers[i].region = ListRegion(h - 1)

\* the documents: those with at most one usable tab or heading, those with
\* two usable tabs, and those with two headings of one text
Documents ==
    {doc \in [fault : {"none"}, tabs : TabLists, panels : PanelSets,
               headings : HeadingLists, markers : MarkerLists] : WellFormed(doc)}
    \cup
    {doc \in [fault : {"none"}, tabs : TwoTabLists, panels : TwoPanelSets,
               headings : {<<>>}, markers : MarkerLists] : WellFormed(doc)}
    \cup
    {doc \in [fault : {"none"}, tabs : {<<>>}, panels : {{}},
               headings : TwoHeadingLists, markers : MarkerLists] : WellFormed(doc)}
FaultyDocuments ==
    {[NoDocument EXCEPT !.fault = f] : f \in {"fetchError", "extractError"}}

runAndCacheVars ==
    <<recipeIds, forceRefresh, store, nutritionCache, loadedCache, loadOutcome,
      ioLog, pc, uniqueRecipeIds, recipeIdsToFetch, batchIndex, groupIndex,
      status, retryCount, lookups, limited, result, writeLog, calls, cacheBefore,
      pendingCalls>>

InitPage ==
    /\ recipeIds = <<>>
    /\ forceRefresh = FALSE
    /\ store = AbsentFile
    /\ InitNoRun
    /\ InitNoCalls
    /\ InitNoScrape
    /\ InitNoSide
    /\ location \in LocationIds
    /\ document \in Documents \cup FaultyDocuments
    /\ locationData = EmptyMealPeriods
    /\ pagePc = "fetching"

\* the answer of axios.get(url) arrives and fetchLocationPage runs to its end
ExtractPage ==
    /\ pagePc = "fetching"
    /\ locationData' = FetchLocationPage(location, document)
    /\ pagePc' = "returned"
    /\ UNCHANGED <<location, document, runAndCacheVars, scrapeVars, sideVars>>

NextPage == ExtractPage

SpecPage == InitPage /\ [][NextPage]_vars

----------------------------------------------------------------------------
(* scrapeAllLocations on one date *)

\* three of the LOCATIONS, in their order
LocFreshFoodCompany ==
    <<"f", "r", "e", "s", "h", "-", "f", "o", "o", "d", "-",
      "c", "o", "m", "p", "a", "n", "y">>
LocEpicureanPizza ==
    <<"e", "p", "i", "c", "u", "r", "e", "a", "n", "-", "p", "i", "z", "z", "a">>
LOCATIONS == <<LocFreshFoodCompany, LocMccourt, LocEpicureanPizza>>

\* the date at hand: the date of the loop over datesToProcess, the first day
\* when the dates are not looked at
DateOfRun == "2025-01-01"
CurrentDate ==
    IF datesToProcess = <<>> THEN DateOfRun ELSE datesToProcess[dateIndex + 1]

\* the pages of the date: no page, a page without structure, a failing page;
\* the markers are an item with a recipe id, an item without one, and an
\* item whose name and recipe id give the slug of the first
TxEggsUpper == <<"E", "G", "G", "S">>
SameSlugMarker ==
    [name |-> TxEggsUpper, recipe |-> TxTwelve, vegetarian |-> FALSE,
     vegan |-> FALSE, glutenFree |-> FALSE, station |-> <<>>, region |-> "body",
     random |-> TxRandom]
BodyMarkers ==
    {m \in Markers : /\ m.region = "body"
                     /\ (m.station = TxGrill) = (m.name = TxEggs)}
    \cup {SameSlugMarker}
PageDocuments ==
    {[NoDocument EXCEPT !.markers = ms] :
        ms \in UNION {[1..n -> BodyMarkers] : n \in 0..MaxMarkers}}
    \cup FaultyDocuments

\* whether fetchLocationPage throws on the document: its catch handles every
\* failure of the fetch and of the extraction
PageThrowsOnFault(doc) == doc.fault # "none"
PageThrows(doc) == FALSE

\* The properties every object literal inherits from Object.prototype: obj[key]
\* gives a function for them, also when the object has no such member.
TxConstructor == <<"c", "o", "n", "s", "t", "r", "u", "c", "t", "o", "r">>
ObjectPrototypeKeys ==
    {TxConstructor, <<"t", "o", "S", "t", "r", "i", "n", "g">>,
     <<"v", "a", "l", "u", "e", "O", "f">>}

\* truthiness of obj[key] for an object whose members are objects
Truthy(obj, key) == OHas(obj, key) \/ key \in ObjectPrototypeKeys

\* "Add each food item to the centralized items map": if (!itemsMap[itemID])
RECURSIVE AddItemsOverwrite(_, _, _)
AddItemsOverwrite(map, items, itemIDs) ==
    IF items = <<>> THEN map
    ELSE AddItemsOverwrite(OPut(map, Head(itemIDs), Head(items)),
                           Tail(items), Tail(itemIDs))
RECURSIVE AddItems(_, _, _)
AddItems(map, items, itemIDs) ==
    IF items = <<>> THEN map
    ELSE AddItems(IF Truthy(map, Head(itemIDs)) THEN map
                  ELSE OPut(map, Head(itemIDs), Head(items)),
                  Tail(items), Tail(itemIDs))
RECURSIVE AddStations(_, _)
AddStations(map, stations) ==
    IF stations = <<>> THEN map
    ELSE AddStations(AddItems(map, Head(stations)[2].items, Head(stations)[2].itemIDs),
                     Tail(stations))
RECURSIVE AddMealPeriods(_, _)
AddMealPeriods(map, mealPeriods) ==
    IF mealPeriods = <<>> THEN map
    ELSE AddMealPeriods(AddStations(map, Head(mealPeriods)[2].stations),
                        Tail(mealPeriods))

\* whether the location has data for the date
HasMealPeriods(data) == Len(OKeys(data)) > 0

\* the variables of the lookup loops, of the collector that does not run
\* with scrapeAllLocations, of the cache, of a date, of the check of the
\* dates and of the closing scan
lookupVars == <<pc, recipeIdsToFetch, batchIndex, groupIndex, status, retryCount>>
collectorIdleVars ==
    <<recipeIds, forceRefresh, uniqueRecipeIds, lookups, limited, result, writeLog,
      calls, cacheBefore>>
collectorRunVars == <<collectorIdleVars, lookupVars>>
collectorVars == <<collectorRunVars, pendingCalls>>
cacheVars == <<store, nutritionCache, loadedCache, loadOutcome, ioLog>>
dateVars == <<locationIndex, menuData, itemsMap, pages>>
checkVars == <<artifacts, presentAtCheck, reportedPresent, checkIndex, datesToProcess>>
scanVars == <<scanIndex, allRecipeIds>>
requestVars == <<authorization, cronSecret>>

\* the concatenation of the sequences of a sequence
RECURSIVE Flatten(_)
Flatten(seqs) == IF seqs = <<>> THEN <<>> ELSE Head(seqs) \o Flatten(Tail(seqs))

\* the recipe ids of the items of one page, of a menu, of an items map, in
\* the order of the forEach traversals
PageRecipeIds(mealPeriods) ==
    Flatten([p \in 1..Len(mealPeriods) |->
        LET stations == mealPeriods[p][2].stations
        IN  Flatten([s \in 1..Len(stations) |->
                [k \in 1..Len(stations[s][2].items) |->
                    stations[s][2].items[k].recipeId]])])
MenuRecipeIds(menu) ==
    Flatten([l \in 1..Len(menu) |->
        Flatten([d \in 1..Len(menu[l][2].days) |->
            PageRecipeIds(menu[l][2].days[d][2])])])
MapRecipeIds(map) == [k \in 1..Len(map) |-> map[k][2].recipeId]

\* recipesToFetch of processNutritionData: Array.from of the Set
RecipesToFetch(menu, map, cache) ==
    LET Wanted(id) == id # 0 /\ NeedsFetch(cache, id)
    IN  DedupFrom(SelectSeq(MenuRecipeIds(menu) \o MapRecipeIds(map), Wanted), 1)

\* item.recipeId.toString()
RECURSIVE NumberToText(_)
NumberToText(n) ==
    IF n < 10 THEN <<Digits[n + 1]>>
    ELSE NumberToText(n \div 10) \o <<Digits[(n % 10) + 1]>>

\* delete obj[key]
ODelete(obj, key) ==
    LET Other(entry) == entry[1] # key IN SelectSeq(obj, Other)

\* Object.keys(obj).length === 0
NoKeysNever(obj) == FALSE
NoKeys(obj) == Len(obj) = 0

\* the entry of a station in the normalized structure, none when the station
\* has neither itemIDs nor items
NormalizedStation(stationData, random) ==
    IF Len(stationData.itemIDs) > 0
    THEN <<[itemIDs |-> stationData.itemIDs]>>
    ELSE IF Len(stationData.items) > 0
    THEN <<[itemIDs |->
              [k \in 1..Len(stationData.items) |->
                  GenerateSlug(stationData.items[k].name,
                               NumberToText(stationData.items[k].recipeId),
                               random)]]>>
    ELSE <<>>

RECURSIVE NormalizedStations(_, _, _)
NormalizedStations(stations, random, acc) ==
    IF stations = <<>> THEN acc
    ELSE LET entry == NormalizedStation(Head(stations)[2], random)
         IN  NormalizedStations(Tail(stations), random,
                 IF entry = <<>> THEN acc
                 ELSE OPut(acc, Head(stations)[1], entry[1]))

RECURSIVE NormalizedMealPeriods(_, _, _)
NormalizedMealPeriods(mealPeriods, random, acc) ==
    IF mealPeriods = <<>> THEN acc
    ELSE LET mealTime == Head(mealPeriods)[1]
             mealData == Head(mealPeriods)[2]
             stations == NormalizedStations(mealData.stations, random, <<>>)
             added == OPut(acc, mealTime, [stations |-> stations])
         IN  NormalizedMealPeriods(Tail(mealPeriods), random,
                 IF NoKeys(mealData.stations) THEN acc
                 ELSE IF NoKeys(stations) THEN ODelete(added, mealTime)
                 ELSE added)

RECURSIVE NormalizedLocations(_, _, _, _)
NormalizedLocations(menu, date, random, acc) ==
    IF menu = <<>> THEN acc
    ELSE LET locationId == Head(menu)[1]
             days == Head(menu)[2].days
         IN  NormalizedLocations(Tail(menu), date, random,
                 IF ~OHas(days, date) \/ NoKeys(OGet(days, date)) THEN acc
                 ELSE LET mealPeriods ==
                              NormalizedMealPeriods(OGet(days, date), random, <<>>)
                          added == OPut(acc, locationId,
                                        [mealPeriods |-> mealPeriods])
                      IN  IF NoKeys(mealPeriods) THEN ODelete(added, locationId)
                          ELSE added)

\* normalizedMenuData of a date (lastUpdated and the names left out)
Normalize(menu, map, date, random) ==
    [date |-> date,
     locations |-> NormalizedLocations(menu, date, random, <<>>),
     items |-> map]

\* The two lookup loops of the scheduler, the one of processNutritionData
\* and the one of processAllNutritionData, are the same code: batches of
\* BATCH_SIZE, miniBatches of CONCURRENT_REQUESTS, fetchNutrition(id, 0,
\* true) for each id.  scrapePc tells which of the two runs, pc where it
\* stands.
LookupLoops == {"processNutrition", "refresh"}

\* miniBatch g of batch b: each task runs fetchNutrition(id, 0, true) up to
\* its await, no cache check is made
StartLookupGroup(ids, b, g) ==
    /\ batchIndex' = b
    /\ groupIndex' = g
    /\ status' = [t \in Tasks |->
                    IF t \in GroupTasks(ids, b, g) THEN "fetching" ELSE status[t]]
    /\ retryCount' = [t \in Tasks |->
                        IF t \in GroupTasks(ids, b, g) THEN 0 ELSE retryCount[t]]
    /\ pc' = "awaitGroup"

\* a lookup loop is over, or had no id.  After processNutritionData the
\* artifact of the date is built and fileExistsInStorage is asked for its
\* file; after processAllNutritionData saveNutritionCache runs up to its
\* await: the cache is serialised.
LookupsDone(loop, menu, map) ==
    /\ pc' = "start"
    /\ recipeIdsToFetch' = <<>>
    /\ batchIndex' = 0
    /\ groupIndex' = 0
    /\ status' = [t \in Tasks |-> "idle"]
    /\ retryCount' = [t \in Tasks |-> 0]
    /\ IF loop = "processNutrition"
       THEN /\ \E random \in Randoms :
                 normalizedMenuData' = Normalize(menu, map, CurrentDate, random)
            /\ scrapePc' = "artifactCheck"
            /\ UNCHANGED pendingCalls
       ELSE /\ pendingCalls' = Append(pendingCalls, SaveCall("scrape", nutritionCache))
            /\ scrapePc' = "save"
            /\ UNCHANGED normalizedMenuData

\* the batches are made of ids and the first miniBatch starts
StartLookups(loop, ids, menu, map) ==
    IF Len(ids) = 0
    THEN LookupsDone(loop, menu, map)
    ELSE /\ recipeIdsToFetch' = ids
         /\ StartLookupGroup(ids, 0, 0)
         /\ scrapePc' = loop
         /\ UNCHANGED <<normalizedMenuData, pendingCalls>>

\* processNutritionData(menuData, itemsMap) up to its first await
ProcessNutritionData(menu, map) ==
    StartLookups("processNutrition", RecipesToFetch(menu, map, nutritionCache),
                 menu, map)

\* menuData.locations[locationId] = {name, days: {}}, which the loop over
\* LOCATIONS does before it asks for the page of the location. (The name of
\* the location in menuData is left out.)
InitLocation(menu, locationId) == OPut(menu, locationId, [days |-> <<>>])

\* scrapeAllLocations stands at the await of the first page of a date: the
\* first location is in menuData, without days
InitScrape ==
    /\ recipeIds = <<>>
    /\ forceRefresh = FALSE
    /\ store = AbsentFile
    /\ InitNoRun
    /\ InitNoCalls
    /\ InitNoPage
    /\ InitNoSide
    /\ scrapePc = "fetchPage"
    /\ locationIndex = 0
    /\ menuData = InitLocation(<<>>, LOCATIONS[1])
    /\ itemsMap = <<>>
    /\ processedAnyData = FALSE
    /\ pages = <<>>

\* The body of the loop over LOCATIONS from the answer of the page fetch to
\* the next await: fetchLocationPage runs to its end, a page with meal
\* periods becomes the day of the location in menuData and its items go to
\* itemsMap; after the last location the date goes on to
\* processNutritionData, which runs up to its first await, or is skipped.
FetchPage(doc) ==
    /\ scrapePc = "fetchPage"
    /\ LET locationId == LOCATIONS[locationIndex + 1]
           data == FetchLocationPage(locationId, doc)
           last == locationId = LOCATIONS[Len(LOCATIONS)]
           menu == IF HasMealPeriods(data)
                   THEN OPut(menuData, locationId,
                             [days |-> <<<<CurrentDate, data>>>>])
                   ELSE menuData
           map == IF HasMealPeriods(data)
                  THEN AddMealPeriods(itemsMap, data) ELSE itemsMap
           any == (processedAnyData \/ HasMealPeriods(data))
       IN  /\ location' = locationId
           /\ document' = doc
           /\ pages' = Append(pages, doc.fault)
           /\ extracted' = extracted \cup {<<"menu", locationId, CurrentDate>>}
           /\ IF PageThrows(doc)
              THEN /\ scrapePc' = "raised"
                   /\ UNCHANGED <<locationData, pagePc, menuData, itemsMap,
                                  processedAnyData,
                                  lookupVars, normalizedMenuData, pendingCalls>>
              ELSE /\ locationData' = data
                   /\ pagePc' = "returned"
                   /\ menuData' = menu
                   /\ itemsMap' = map
                   /\ processedAnyData' = any
                   /\ IF last /\ any
                      THEN ProcessNutritionData(menu, map)
                      ELSE /\ scrapePc' = IF last THEN "nextDate" ELSE "locationDelay"
                           /\ UNCHANGED <<lookupVars, normalizedMenuData,
                                          pendingCalls>>
    /\ UNCHANGED <<locationIndex, collectorIdleVars, cacheVars, slugVars, fetchVars,
                   checkVars, dateIndex, written, uploadFailed, scanVars,
                   handlerVars>>

\* await delay(DELAY_BETWEEN_LOCATIONS) returns: the next location is put
\* into menuData and its page is asked for
LocationDelayDone ==
    /\ scrapePc = "locationDelay"
    /\ locationIndex' = locationIndex + 1
    /\ menuData' = InitLocation(menuData, LOCATIONS[locationIndex + 2])
    /\ scrapePc' = "fetchPage"
    /\ UNCHANGED <<itemsMap, processedAnyData, pages, pageVars,
                   runAndCacheVars, sideVars>>

NextScrape ==
    \/ \E doc \in PageDocuments : FetchPage(doc)
    \/ LocationDelayDone

SpecScrape == InitScrape /\ [][NextScrape]_vars

----------------------------------------------------------------------------
(* The scrape handler and the whole of scrapeAllLocations: the request is  *)
(* checked, the cache is loaded, the dates of the window are checked one   *)
(* by one, each date to process goes through the loop over LOCATIONS, the  *)
(* nutrition lookups, the normalization and the upload, and the run ends   *)
(* with processAllNutritionData and saveNutritionCache.                    *)

\* getNextWeekDates(): the first WindowDays days from today
WeekDates ==
    <<"2025-01-01", "2025-01-02", "2025-01-03", "2025-01-04", "2025-01-05",
      "2025-01-06", "2025-01-07">>
AllDates == [i \in 1..WindowDays |-> WeekDates[i]]

\* the pages a location can answer with for a date: a failing fetch, a page
\* without anything (it gets the default period without a station), a page
\* with one item, a page with two tabs of which one panel is empty, and a
\* page with an item without recipe id whose slug, "constructor", names a
\* property of Object.prototype
TxPageRecipe == <<"2">>
PageMarker(region) ==
    [name |-> TxEggs, recipe |-> TxPageRecipe, vegetarian |-> TRUE, vegan |-> FALSE,
     glutenFree |-> FALSE, station |-> TxGrill, region |-> region,
     random |-> TxRandom]
TwoTabPage ==
    [fault |-> "none", tabs |-> <<Tab(TxLunch, "t1"), Tab(TxDinner, "t2")>>,
     panels |-> {"t1", "t2"}, headings |-> <<>>, markers |-> <<PageMarker("t1")>>]
NamedLikeAProperty ==
    [name |-> <<"C">> \o Tail(TxConstructor), recipe |-> <<>>, vegetarian |-> FALSE,
     vegan |-> FALSE, glutenFree |-> FALSE, station |-> TxGrill, region |-> "body",
     random |-> TxRandom]
DatePages ==
    {[NoDocument EXCEPT !.fault = "fetchError"], NoDocument,
     [NoDocument EXCEPT !.markers = <<PageMarker("body")>>], TwoTabPage,
     [NoDocument EXCEPT !.markers = <<NamedLikeAProperty>>]}

\* the request: no authorization header, the header Vercel sends for the
\* secret, the bare secret
TxSecret == "s3cret"
Bearer(secret) == <<"Bearer ", secret>>
Headers == {NoHeader, Bearer(TxSecret), <<TxSecret>>}
Secrets == {"", TxSecret}

\* the security check of the handler passes
AuthorizedAlways(secret, header) == TRUE
Authorized(secret, header) == ~(secret # "" /\ header # Bearer(secret))

\* a request arrives and nothing else runs
InitRequest ==
    /\ recipeIds = <<>>
    /\ forceRefresh = FALSE
    /\ InitNoRun
    /\ InitNoCalls
    /\ InitNoPage
    /\ InitNoScrape
    /\ InitNoSlug
    /\ InitNoFetch
    /\ InitNoWindow
    /\ response = NoResponse

\* the cache files of the runs of the orchestrator: none, one entry, and
\* one entry more than a batch takes
OrchFiles == {AbsentFile, JsonFile(<<<<IdKey(1), StoredRecord>>>>)}
TwoBatchFile == JsonFile([id \in 1..(BATCH_SIZE + 1) |-> <<IdKey(id), StoredRecord>>])

\* Any request, in the daily situation: no cache file yet, and every date
\* of the window but the last has its artifact.
InitHandler ==
    /\ InitRequest
    /\ store = AbsentFile
    /\ artifacts = SeqToSet(AllDates) \ {AllDates[WindowDays]}
    /\ authorization \in Headers
    /\ cronSecret \in Secrets

\* A request that passes without a secret, on any set of artifacts and
\* with or without a cache file, or on every artifact and a cache file of
\* two batches.
InitOrch ==
    /\ InitRequest
    /\ \/ /\ store \in OrchFiles
          /\ artifacts \in SUBSET SeqToSet(AllDates)
       \/ /\ store = TwoBatchFile
          /\ artifacts = SeqToSet(AllDates)
    /\ authorization = NoHeader
    /\ cronSecret = ""

\* The handler from the request to its first await: the security check, and
\* scrapeAllLocations up to await loadNutritionCache().
Handle ==
    /\ scrapePc = "none"
    /\ response = NoResponse
    /\ IF Authorized(cronSecret, authorization)
       THEN /\ scrapePc' = "load"
            /\ pendingCalls' = Append(pendingCalls, LoadCall("scrape"))
            /\ response' = response
       ELSE /\ scrapePc' = scrapePc
            /\ pendingCalls' = pendingCalls
            /\ response' = [status |-> 401, body |-> "Unauthorized"]
    /\ UNCHANGED <<collectorRunVars, cacheVars, pageVars, dateVars, processedAnyData,
                   slugVars, fetchVars, checkVars, dateIndex, normalizedMenuData,
                   written, uploadFailed, scanVars, extracted, requestVars>>

\* the next callback of await loadNutritionCache(): the load goes on to
\* its next await, or it ends and getDatesToProcess is called
LoadCache ==
    /\ scrapePc = "load"
    /\ LET i == PendingIndex("scrape", "load")
       IN  \E load \in LoadAnswers(pendingCalls[i], store) :
             IF load.stage \in LoadStages
             THEN /\ pendingCalls' = [pendingCalls EXCEPT ![i] = load]
                  /\ UNCHANGED <<nutritionCache, loadedCache, loadOutcome, ioLog,
                                 scrapePc>>
             ELSE /\ pendingCalls' = RemoveAt(pendingCalls, i)
                  /\ nutritionCache' =
                       CacheAfterLoad(nutritionCache, load.file, load.stage)
                  /\ loadedCache' = nutritionCache'
                  /\ loadOutcome' = LoadEnd(load.stage)
                  /\ ioLog' = Append(ioLog, "load")
                  /\ scrapePc' = "checkDates"
    /\ UNCHANGED <<collectorRunVars, store, pageVars, dateVars, processedAnyData,
                   slugVars, fetchVars, checkVars, dateIndex, normalizedMenuData,
                   written, uploadFailed, scanVars, extracted, handlerVars>>

\* allDates.filter((date) => !existingDatesSet.has(date))
DatesToProcessAll(allDates, existing) == allDates
DatesToProcess(allDates, existing) ==
    LET Missing(date) == date \notin existing IN SelectSeq(allDates, Missing)

\* the variables of the body of the loop over datesToProcess are new in
\* every round and gone after the loop
NewDateLocals(menu) ==
    /\ locationIndex' = 0
    /\ menuData' = menu
    /\ itemsMap' = <<>>
    /\ pages' = <<>>
    /\ normalizedMenuData' = NoArtifact
    /\ location' = <<>>
    /\ document' = NoDocument
    /\ locationData' = EmptyMealPeriods
    /\ pagePc' = "none"

\* a date of datesToProcess starts: the first location is put into the new
\* menuData and its page is asked for
StartDate(index) ==
    /\ dateIndex' = index
    /\ NewDateLocals(InitLocation(<<>>, LOCATIONS[1]))
    /\ scrapePc' = "fetchPage"
    /\ UNCHANGED allRecipeIds

\* Object.keys(nutritionCache), parsed and positive: the keys that hold a
\* whole number come in ascending order
CacheRecipeIds(cache) ==
    LET Cached(id) == IdKey(id) \in DOMAIN cache
    IN  SelectSeq([id \in PosIds |-> id], Cached)

\* the loop over datesToProcess is over (or was not entered):
\* processAllNutritionData is called, takes the ids of the cache and asks
\* for the first page of its scan
EndDates ==
    /\ dateIndex' = dateIndex
    /\ NewDateLocals(<<>>)
    /\ scrapePc' = "scan"
    /\ allRecipeIds' = CacheRecipeIds(nutritionCache)

\* getDatesToProcess, the answer of fileExistsInStorage for one date of the
\* window: true for an artifact that is there, and false when there is
\* none and whenever the check fails.  The next date is asked for; after
\* the last one the dates without a true answer are the dates to process.
GetDatesToProcess ==
    /\ scrapePc = "checkDates"
    /\ LET date == AllDates[checkIndex + 1]
       IN  \E exists \in FileExistsInStorage(date \in artifacts) :
             LET existing == IF exists THEN reportedPresent \cup {date}
                             ELSE reportedPresent
                 dates == DatesToProcess(AllDates, existing)
             IN  /\ presentAtCheck' = IF date \in artifacts
                                      THEN presentAtCheck \cup {date}
                                      ELSE presentAtCheck
                 /\ reportedPresent' = existing
                 /\ checkIndex' = checkIndex + 1
                 /\ IF checkIndex + 1 < Len(AllDates)
                    THEN UNCHANGED <<datesToProcess, dateIndex, dateVars,
                                     normalizedMenuData, pageVars, scrapePc,
                                     allRecipeIds>>
                    ELSE /\ datesToProcess' = dates
                         /\ IF Len(dates) = 0 THEN EndDates ELSE StartDate(0)
    /\ UNCHANGED <<collectorVars, cacheVars, processedAnyData, slugVars,
                   fetchVars, artifacts, written, uploadFailed, scanIndex, extracted,
                   handlerVars>>

\* after a date: the next date of datesToProcess, or the closing
\* processAllNutritionData
LastDate == dateIndex + 1 >= Len(datesToProcess)

\* "continue": no location has given data so far, the date is left without
\* nutrition processing, artifact and delay
SkipDate ==
    /\ scrapePc = "nextDate"
    /\ IF LastDate THEN EndDates ELSE StartDate(dateIndex + 1)
    /\ UNCHANGED <<collectorVars, cacheVars, processedAnyData, slugVars,
                   fetchVars, checkVars, written, uploadFailed, scanIndex, extracted,
                   handlerVars>>

\* what a step of a lookup loop leaves unchanged
lookupFrame ==
    <<collectorIdleVars, store, loadedCache, loadOutcome, ioLog, pageVars, dateVars,
      processedAnyData, slugVars, fetchVars, checkVars, dateIndex, written,
      uploadFailed, scanVars, extracted, handlerVars>>

\* The answer to the lookup of task t arrives: the rest of the try block or
\* the catch block of the fetchNutrition of the scheduler.  A 429 before
\* the third retry is waited out; rows are written to the cache; anything
\* else, a 404 and an invalid answer included, returns {}.  When the task
\* was the last of its miniBatch to settle, await Promise.all(...) resumes
\* and delay(DELAY_BETWEEN_ITEMS) starts.
LookupAnswered(t, resp) ==
    /\ scrapePc \in LookupLoops
    /\ status[t] = "fetching"
    /\ LET nutrition == ParseNutrition(resp.html)
           rows == AxiosResolves(resp) /\ ~InvalidFormat(resp) /\ ShouldCache(nutrition)
           settled == [status EXCEPT ![t] = IF rows THEN "success" ELSE "empty"]
       IN  IF ShouldRetry(resp, retryCount[t])
           THEN /\ status' = [status EXCEPT ![t] = "backoff"]
                /\ UNCHANGED <<nutritionCache, retryCount, pc>>
           ELSE /\ nutritionCache' =
                     IF rows
                     THEN CachePut(nutritionCache, IdKey(recipeIdsToFetch[t]), nutrition)
                     ELSE nutritionCache
                /\ retryCount' = [retryCount EXCEPT ![t] = 0]
                /\ IF GroupSettled(settled, CurrentGroup)
                   THEN /\ status' = [u \in Tasks |-> "idle"]
                        /\ pc' = "itemDelay"
                   ELSE /\ status' = settled
                        /\ pc' = pc
    /\ UNCHANGED <<recipeIdsToFetch, batchIndex, groupIndex, scrapePc,
                   normalizedMenuData, pendingCalls, lookupFrame>>

\* await delay(waitTime) of task t is over: fetchNutrition(recipeId,
\* retryCount + 1, true) runs up to its await
LookupRetried(t) ==
    /\ scrapePc \in LookupLoops
    /\ status[t] = "backoff"
    /\ status' = [status EXCEPT ![t] = "fetching"]
    /\ retryCount' = [retryCount EXCEPT ![t] = @ + 1]
    /\ UNCHANGED <<pc, recipeIdsToFetch, batchIndex, groupIndex, scrapePc,
                   nutritionCache, normalizedMenuData, pendingCalls, lookupFrame>>

\* delay(DELAY_BETWEEN_ITEMS) is over: the next miniBatch of the batch, the
\* delay between batches, or the end of the loop
ItemDelayDone ==
    /\ scrapePc \in LookupLoops
    /\ pc = "itemDelay"
    /\ IF groupIndex + 1 < NumMiniBatches(Batch(recipeIdsToFetch, batchIndex))
       THEN /\ StartLookupGroup(recipeIdsToFetch, batchIndex, groupIndex + 1)
            /\ UNCHANGED <<recipeIdsToFetch, scrapePc, normalizedMenuData,
                           pendingCalls>>
       ELSE IF MoreBatches(recipeIdsToFetch, batchIndex)
       THEN /\ pc' = "batchDelay"
            /\ UNCHANGED <<recipeIdsToFetch, batchIndex, groupIndex, status,
                           retryCount, scrapePc, normalizedMenuData, pendingCalls>>
       ELSE LookupsDone(scrapePc, menuData, itemsMap)
    /\ UNCHANGED <<nutritionCache, lookupFrame>>

\* delay(DELAY_BETWEEN_BATCHES) is over: the first miniBatch of the next
\* batch
BatchDelayDone ==
    /\ scrapePc \in LookupLoops
    /\ pc = "batchDelay"
    /\ StartLookupGroup(recipeIdsToFetch, batchIndex + 1, 0)
    /\ UNCHANGED <<recipeIdsToFetch, scrapePc, nutritionCache, normalizedMenuData,
                   pendingCalls, lookupFrame>>

\* fileExistsInStorage answers for the file of the artifact, and the answer
\* is only logged: to scrapeAllLocations, which serialises the artifact
\* and calls uploadToSupabase, and then to uploadToSupabase, which asks
\* for the upload
UploadChecked ==
    /\ scrapePc \in {"artifactCheck", "uploadCheck"}
    /\ scrapePc' = IF scrapePc = "artifactCheck" THEN "uploadCheck" ELSE "upload"
    /\ UNCHANGED <<collectorVars, cacheVars, pageVars, dateVars, processedAnyData,
                   slugVars, fetchVars, checkVars, dateIndex, normalizedMenuData,
                   written, uploadFailed, scanVars, extracted, handlerVars>>

\* where scrapeAllLocations stands after a failed upload: the catch around
\* the upload logs the failure and the loop goes on (next is where it goes
\* after an upload)
PcAfterUploadErrorUncaught(next) == "raised"
PcAfterUploadError(next) == next

\* the upload of uploadToSupabase settles: the artifact of the date is in
\* the store, or the failure is logged; then the delay between days or the
\* end of the loop
UploadDone(ok) ==
    /\ scrapePc = "upload"
    /\ artifacts' = IF ok THEN artifacts \cup {CurrentDate} ELSE artifacts
    /\ written' = IF ok THEN written \cup {CurrentDate} ELSE written
    /\ uploadFailed' = IF ok THEN uploadFailed ELSE uploadFailed \cup {CurrentDate}
    /\ LET next == IF LastDate THEN "scan" ELSE "dayDelay"
       IN  IF ~ok /\ PcAfterUploadError(next) # next
           THEN /\ scrapePc' = PcAfterUploadError(next)
                /\ UNCHANGED <<pageVars, dateVars, dateIndex, normalizedMenuData,
                               allRecipeIds>>
           ELSE IF LastDate
           THEN EndDates
           ELSE /\ scrapePc' = next
                /\ UNCHANGED <<pageVars, dateVars, dateIndex, normalizedMenuData,
                               allRecipeIds>>
    /\ UNCHANGED <<collectorVars, cacheVars, processedAnyData,
                   slugVars, fetchVars, presentAtCheck, reportedPresent, checkIndex,
                   datesToProcess, scanIndex, extracted, handlerVars>>

\* await delay(DELAY_BETWEEN_DAYS) returns
DayDelayDone ==
    /\ scrapePc = "dayDelay"
    /\ StartDate(dateIndex + 1)
    /\ UNCHANGED <<collectorVars, cacheVars, processedAnyData, slugVars,
                   fetchVars, checkVars, written, uploadFailed, scanIndex, extracted,
                   handlerVars>>

\* processAllNutritionData, the answer for one page of its scan of every
\* location on every date of the window: the positive ids of the page are
\* added to the Set (the page is a local of the scan), and delay(500)
\* starts
NumScanPages == Len(LOCATIONS) * WindowDays
ScanPage(doc) ==
    /\ scrapePc = "scan"
    /\ LET locationId == LOCATIONS[(scanIndex \div WindowDays) + 1]
           date == AllDates[(scanIndex % WindowDays) + 1]
           data == FetchLocationPage(locationId, doc)
       IN  /\ extracted' = extracted \cup {<<"scan", locationId, date>>}
           /\ allRecipeIds' =
                DedupFrom(allRecipeIds \o SelectSeq(PageRecipeIds(data), IsPositive), 1)
    /\ scanIndex' = scanIndex + 1
    /\ scrapePc' = "scanDelay"
    /\ UNCHANGED <<collectorVars, cacheVars, pageVars, dateVars, processedAnyData, slugVars,
                   fetchVars, checkVars, dateIndex, normalizedMenuData, written, uploadFailed,
                   handlerVars>>

\* the batches of processAllNutritionData up to their first await
RefreshNutrition == StartLookups("refresh", allRecipeIds, menuData, itemsMap)

\* await delay(500) returns: the next page of the scan is asked for, or,
\* after the last one, the batches start
ScanDelayDone ==
    /\ scrapePc = "scanDelay"
    /\ IF scanIndex < NumScanPages
       THEN /\ scrapePc' = "scan"
            /\ UNCHANGED <<lookupVars, normalizedMenuData, pendingCalls>>
       ELSE RefreshNutrition
    /\ UNCHANGED <<nutritionCache, lookupFrame>>

\* what scrapeAllLocations returns
ScrapeSuccess == IF Len(datesToProcess) = 0 THEN FALSE ELSE processedAnyData

\* the upload of saveNutritionCache settles and with it scrapeAllLocations;
\* the handler answers
SaveCache(ok) ==
    /\ scrapePc = "save"
    /\ ioLog' = Append(ioLog, IF ok THEN "save" ELSE "saveError")
    /\ pendingCalls' = RemoveAt(pendingCalls, PendingIndex("scrape", "save"))
    /\ IF ok
       THEN /\ store' = pendingCalls[PendingIndex("scrape", "save")].file
            /\ scrapePc' = "returned"
            /\ response' = [status |-> 200,
                            body |-> IF ScrapeSuccess THEN "completed"
                                     ELSE "no new data"]
       ELSE /\ store' = store
            /\ scrapePc' = "raised"
            /\ response' = [status |-> 500, body |-> "failed"]
    /\ UNCHANGED <<collectorRunVars, nutritionCache, loadedCache, loadOutcome,
                   pageVars, dateVars, processedAnyData, slugVars, fetchVars,
                   checkVars, dateIndex, normalizedMenuData, written, uploadFailed, scanVars,
                   extracted, requestVars>>

\* the steps of a run whose lookup loops have one batch each
NextHandlerOneBatch ==
    \/ Handle
    \/ LoadCache
    \/ GetDatesToProcess
    \/ \E doc \in DatePages : FetchPage(doc)
    \/ LocationDelayDone
    \/ SkipDate
    \/ \E t \in Tasks, resp \in Responses : LookupAnswered(t, resp)
    \/ \E t \in Tasks : LookupRetried(t)
    \/ ItemDelayDone
    \/ UploadChecked
    \/ \E ok \in BOOLEAN : UploadDone(ok)
    \/ DayDelayDone
    \/ \E doc \in DatePages : ScanPage(doc)
    \/ ScanDelayDone
    \/ \E ok \in BOOLEAN : SaveCache(ok)

NextHandler ==
    \/ NextHandlerOneBatch
    \/ BatchDelayDone

\* what the steps of the other users of the cache and of the bucket leave
\* unchanged
dailyFrame ==
    <<collectorRunVars, loadedCache, loadOutcome, ioLog, pageVars, scrapePc,
      dateVars, processedAnyData, slugVars, fetchVars, presentAtCheck,
      reportedPresent, checkIndex, datesToProcess, dateIndex, normalizedMenuData,
      written, uploadFailed, scanVars, extracted, handlerVars>>

\* Another process (another deployment of the scheduler, the handler on
\* another instance) or another request on the instance writes to the
\* bucket where the run can see it, at any time: uploadToSupabase puts the
\* artifact of a date of the window, or the saveNutritionCache of another
\* process puts its cache, which holds recipe 2.
OtherProcessFile == JsonFile(<<<<IdKey(2), StoredRecord>>>>)
OtherProcessWrites ==
    /\ \/ /\ \E date \in SeqToSet(AllDates) \ artifacts :
                artifacts' = artifacts \cup {date}
          /\ UNCHANGED store
       \/ /\ store # OtherProcessFile
          /\ store' = OtherProcessFile
          /\ UNCHANGED artifacts
    /\ UNCHANGED <<nutritionCache, pendingCalls, dailyFrame>>

\* A second request that the instance serves runs scrapeAllLocations on
\* the same module-level cache.  Of its run the model has what touches the
\* cache and the cache file: its loadNutritionCache, await by await; the
\* cache writes of the lookups of its loops; and its saveNutritionCache,
\* the call and the settlement.  Its pages, its delays and its checks
\* change nothing the first run can see, and its uploads of artifacts are
\* writes to the bucket as in OtherProcessWrites.  Its pages list recipe 2,
\* and of its lookups those of recipe 2 are answered with rows.
SecondRequestIds == {2}

\* the handler lets it in and scrapeAllLocations runs up to the first
\* await of loadNutritionCache
SecondRequestCalled ==
    /\ \A i \in 1..Len(pendingCalls) : pendingCalls[i].caller # "second"
    /\ OtherMayCall
    /\ pendingCalls' = Append(pendingCalls, LoadCall("second"))
    /\ UNCHANGED <<store, artifacts, nutritionCache, dailyFrame>>

\* the next callback of its load; after the last one it goes on to its
\* dates
SecondRequestLoaded ==
    /\ IsPending("second", "load")
    /\ LET i == PendingIndex("second", "load")
       IN  \E load \in LoadAnswers(pendingCalls[i], store) :
             IF load.stage \in LoadStages
             THEN /\ pendingCalls' = [pendingCalls EXCEPT ![i] = load]
                  /\ UNCHANGED nutritionCache
             ELSE /\ pendingCalls' = [pendingCalls EXCEPT ![i] =
                        [load EXCEPT !.op = "scrape", !.stage = "lookups",
                                     !.file = AbsentFile]]
                  /\ nutritionCache' =
                       CacheAfterLoad(nutritionCache, load.file, load.stage)
    /\ UNCHANGED <<store, artifacts, dailyFrame>>

\* a lookup of one of its loops is answered with rows: fetchNutrition
\* writes the record
SecondRequestLookup(id) ==
    /\ IsPending("second", "scrape")
    /\ id \in SecondRequestIds
    /\ nutritionCache' = CachePut(nutritionCache, IdKey(id), FetchedRecord)
    /\ UNCHANGED <<store, artifacts, pendingCalls, dailyFrame>>

\* its loops are over: saveNutritionCache up to its await
SecondRequestSaves ==
    /\ IsPending("second", "scrape")
    /\ LET i == PendingIndex("second", "scrape")
       IN  pendingCalls' = [pendingCalls EXCEPT ![i] =
                               SaveCall("second", nutritionCache)]
    /\ UNCHANGED <<store, artifacts, nutritionCache, dailyFrame>>

\* the upload of its save settles and the second request is answered
SecondRequestSaved(ok) ==
    /\ IsPending("second", "save")
    /\ LET i == PendingIndex("second", "save")
       IN  /\ store' = IF ok THEN pendingCalls[i].file ELSE store
           /\ pendingCalls' = RemoveAt(pendingCalls, i)
    /\ UNCHANGED <<artifacts, nutritionCache, dailyFrame>>

SecondRequest ==
    \/ SecondRequestCalled
    \/ SecondRequestLoaded
    \/ \E id \in SecondRequestIds : SecondRequestLookup(id)
    \/ SecondRequestSaves
    \/ \E ok \in BOOLEAN : SecondRequestSaved(ok)

\* A request that passes without a secret, with or without a cache file
\* and without artifacts, together with the other users of the cache and
\* of the bucket.  The lookup loops have one batch.
InitDaily ==
    /\ InitRequest
    /\ store \in OrchFiles
    /\ artifacts = {}
    /\ authorization = NoHeader
    /\ cronSecret = ""

\* the pages of the run list the recipe
DailyPages == {[NoDocument EXCEPT !.markers = <<PageMarker("body")>>]}

NextDaily ==
    \/ Handle
    \/ LoadCache
    \/ GetDatesToProcess
    \/ \E doc \in DailyPages : FetchPage(doc)
    \/ LocationDelayDone
    \/ SkipDate
    \/ \E t \in Tasks, resp \in Responses : LookupAnswered(t, resp)
    \/ \E t \in Tasks : LookupRetried(t)
    \/ ItemDelayDone
    \/ UploadChecked
    \/ \E ok \in BOOLEAN : UploadDone(ok)
    \/ DayDelayDone
    \/ \E doc \in DailyPages : ScanPage(doc)
    \/ ScanDelayDone
    \/ \E ok \in BOOLEAN : SaveCache(ok)
    \/ SecondRequest
    \/ OtherProcessWrites

SpecDaily == InitDaily /\ [][NextDaily]_vars

SpecHandler == InitHandler /\ [][NextHandlerOneBatch]_vars
SpecOrch == InitOrch /\ [][NextHandler]_vars

----------------------------------------------------------------------------
(* Vocabulary of the properties *)

NumTasks == Len(recipeIdsToFetch)
RunTasks == 1..NumTasks
InFlight(t) == status[t] \in {"fetching", "backoff"}
Returned == pc = "returned"

\* number of positions of s that hold x
Occurrences(s, x) == Cardinality({i \in 1..Len(s) : s[i] = x})

RECURSIVE SumLookups(_)
SumLookups(ts) ==
    IF ts = {} THEN 0
    ELSE LET t == CHOOSE u \in ts : TRUE IN lookups[t] + SumLookups(ts \ {t})

\* network lookups issued for id so far in the run
LookupsOf(id) == SumLookups({t \in RunTasks : recipeIdsToFetch[t] = id})

\* the task of id ended in the throw of fetchNutrition on a 429 answer:
\* every answer it got was a 429
FailedOn429(t) ==
    /\ status[t] = "failed"
    /\ <<recipeIdsToFetch[t], "Status: 429">> \in SeqToSet(result.errors)

\* the usable entries of a cache: present and non-empty
Usable(cache, id) == HasEntry(cache, IdKey(id)) /\ NumKeys(cache[IdKey(id)]) > 0

DistinctPositive(s) ==
    /\ \A i \in 1..Len(s) : s[i] > 0
    /\ \A i, j \in 1..Len(s) : i # j => s[i] # s[j]

----------------------------------------------------------------------------
(* Properties *)

\* C1: under force-refresh an id that is answered 429 at every lookup is
\* looked up exactly 4 times (no task ever issues a 5th lookup, and the task
\* gives up only at its 4th); it is then once in missingRecipes and counted
\* once in errorCount.
C1_RateLimitedFourLookups ==
    forceRefresh =>
        \A t \in RunTasks :
            /\ lookups[t] <= MaxRetries + 1
            /\ FailedOn429(t) =>
                  /\ lookups[t] = MaxRetries + 1
                  /\ Occurrences(result.missingRecipes, recipeIdsToFetch[t]) = 1
                  /\ result.errorCount = Len(result.missingRecipes)

C1_Witness ==
    /\ forceRefresh
    /\ Returned
    /\ \E t \in RunTasks : FailedOn429(t) /\ lookups[t] = 4
    /\ result.errorCount = 1

\* C2: a non-forced run whose input ids all hold a non-empty record in the
\* loaded cache returns skippedCount = the number of distinct input ids and
\* has issued no lookup.
C2_AllCachedAllSkipped ==
    (/\ Returned
     /\ ~forceRefresh
     /\ \A i \in 1..Len(recipeIds) : Usable(loadedCache, recipeIds[i]))
    => /\ result.skippedCount = Cardinality(SeqToSet(recipeIds))
       /\ \A t \in Tasks : lookups[t] = 0

C2_Witness ==
    /\ Returned
    /\ ~forceRefresh
    /\ Len(recipeIds) > 0
    /\ \A i \in 1..Len(recipeIds) : Usable(loadedCache, recipeIds[i])
    /\ result.skippedCount = 1

\* C3: a non-forced run against an empty loaded cache returns fetchedCount +
\* errorCount = the number of distinct positive ids of its input, which is n
\* for a list of n distinct positive ids, and skippedCount = 0, whatever the
\* lookups answered.
C3_FetchedPlusErrorsIsN ==
    (/\ Returned
     /\ ~forceRefresh
     /\ loadedCache = EmptyCache)
    => /\ result.fetchedCount + result.errorCount =
             Cardinality({id \in SeqToSet(recipeIds) : id > 0})
       /\ DistinctPositive(recipeIds) =>
             result.fetchedCount + result.errorCount = Len(recipeIds)
       /\ result.skippedCount = 0

C3_Witness ==
    /\ Returned
    /\ ~forceRefresh
    /\ loadedCache = EmptyCache
    /\ DistinctPositive(recipeIds)
    /\ Len(recipeIds) = 2
    /\ status[1] = "notfound"
    /\ status[2] = "failed" /\ lookups[2] > 1
    /\ result.fetchedCount + result.errorCount = 2

\* C4: a lookup answered 404 is not retried, writes nothing to the cache,
\* leaves errorCount, missingRecipes and errors as they are, and does not
\* increment fetchedCount.
C4_NotFoundCountsNothing ==
    [][\A t \in Tasks :
          (status[t] = "fetching" /\ status'[t] = "notfound") =>
              /\ lookups'[t] = lookups[t]
              /\ nutritionCache' = nutritionCache
              /\ result'.errorCount = result.errorCount
              /\ result'.missingRecipes = result.missingRecipes
              /\ result'.errors = result.errors
              /\ result'.fetchedCount = result.fetchedCount]_vars

\* C5: fetchedCount counts exactly the lookups that parsed to a non-empty
\* record and were written to the cache, so a run returns with fetchedCount
\* = the number of cache writes (stated for the runs without a 404 answer,
\* which C4 is about).
C5_FetchedCountIsCacheWrites ==
    (\A t \in RunTasks : status[t] # "notfound") =>
        /\ result.fetchedCount = Cardinality({t \in RunTasks : status[t] = "success"})
        /\ Returned => result.fetchedCount = Cardinality(writeLog)

\* C6: every record written to the cache during the run has at least one
\* nutrient, so every cache entry that differs from the loaded one is
\* non-empty.
C6_NoEmptyRecordWritten ==
    /\ \A w \in writeLog : NumKeys(w[2]) > 0
    /\ \A k \in DOMAIN nutritionCache :
          (k \notin DOMAIN loadedCache \/ nutritionCache[k] # loadedCache[k])
              => NumKeys(nutritionCache[k]) > 0

C6_Witness ==
    /\ Returned
    /\ \E t \in RunTasks :
          /\ status[t] = "empty"
          /\ ~HasEntry(nutritionCache, IdKey(recipeIdsToFetch[t]))
    /\ \E t \in RunTasks :
          /\ status[t] = "success"
          /\ <<IdKey(recipeIdsToFetch[t]), FetchedRecord>> \in writeLog

\* C7: a non-forced run drops an id only if the loaded cache holds a
\* non-empty record for it: every positive id of the input whose loaded
\* entry is absent or empty has been looked up when the run returns.
C7_DroppedOnlyIfUsable ==
    (Returned /\ ~forceRefresh) =>
        \A id \in SeqToSet(recipeIds) :
            (id > 0 /\ ~Usable(loadedCache, id)) => LookupsOf(id) >= 1

\* The groups of the run, as <<batch, miniBatch>>, their order, and the
\* group of a task.
Groups ==
    {bg \in (0..(NumBatches(recipeIdsToFetch) - 1)) \X (0..(BATCH_SIZE - 1)) :
        bg[2] < NumMiniBatches(Batch(recipeIdsToFetch, bg[1]))}
GroupBefore(a, b) == a[1] < b[1] \/ (a[1] = b[1] /\ a[2] < b[2])
GroupOf(t) ==
    CHOOSE bg \in Groups : t \in GroupTasks(recipeIdsToFetch, bg[1], bg[2])

\* C8: every task in flight (also one in a 429 back-off) belongs to the
\* group the run is waiting for, and while it does no task of a later group
\* has issued a lookup. (The groups slice the positions in order, so the
\* tasks of the later groups are the ones after every task of the group.)
C8_GroupBarrier ==
    LET current == CurrentGroup
    IN  \A u \in RunTasks :
            /\ InFlight(u) => (pc = "awaitGroup" /\ u \in current)
            /\ (\A t \in current : t < u) => (lookups[u] = 0 /\ status[u] = "idle")

\* a later task of the group has settled while an earlier one waits in its
\* back-off, and the next group has not started
C8_Witness ==
    \E t, u, v \in RunTasks :
        /\ GroupOf(t) = GroupOf(u) /\ t < u
        /\ status[t] = "backoff" /\ status[u] = "success"
        /\ GroupBefore(GroupOf(u), GroupOf(v))
        /\ lookups[v] = 0

\* C9: two tasks in flight at the same time never have the same recipe id.
C9_DistinctIdsInFlight ==
    \A t, u \in RunTasks :
        (t # u /\ InFlight(t) /\ InFlight(u))
            => recipeIdsToFetch[t] # recipeIdsToFetch[u]

C9_Witness ==
    /\ \E i, j \in 1..Len(recipeIds) : i # j /\ recipeIds[i] = recipeIds[j]
    /\ \E t, u \in RunTasks : t # u /\ InFlight(t) /\ InFlight(u)

\* C10: a failed lookup does not end the run: while the run waits for a
\* group every task of the group is started, and the run returns only after
\* every id selected for fetching has been looked up and has settled.
C10_FailureDoesNotAbort ==
    /\ pc = "awaitGroup" => \A t \in CurrentGroup : status[t] # "idle"
    /\ Returned => \A t \in RunTasks : Settled(status[t]) /\ lookups[t] >= 1

\* after a failure: the same group, the same batch and a later batch
C10_Witness ==
    /\ Returned
    /\ \E t, u, v, w \in RunTasks :
          /\ status[t] = "failed"
          /\ u # t /\ GroupOf(u) = GroupOf(t)
          /\ GroupOf(v)[1] = GroupOf(t)[1] /\ GroupOf(v)[2] > GroupOf(t)[2]
          /\ GroupOf(w)[1] > GroupOf(t)[1]
          /\ lookups[u] >= 1 /\ lookups[v] >= 1 /\ lookups[w] >= 1

\* the upload of saveNutritionCache failed
SaveFailed == "saveError" \in SeqToSet(ioLog)
\* the run went through its batches and saved the cache
Saved == Returned /\ ioLog = <<"load", "save">>
\* the run ended by raising an error to its caller
Raised == pc = "raised"
NumFailed == Cardinality({t \in RunTasks : status[t] = "failed"})

\* C11: a run that completes its batches and saves the cache returns
\* success = TRUE exactly when fewer than half of the ids selected for
\* fetching failed (so exactly half failing gives FALSE); a run with no id to
\* fetch returns success = TRUE.
C11_SuccessIffUnderHalfFailed ==
    /\ Saved =>
          /\ result.errorCount = NumFailed
          /\ result.success <=> (NumFailed + NumFailed < NumTasks)
          /\ (NumFailed + NumFailed = NumTasks) => ~result.success
    /\ (Returned /\ NumTasks = 0) => result.success

\* exactly half of the attempted ids failed
C11_Witness ==
    /\ Saved
    /\ NumTasks = 2
    /\ result.errorCount = 1
    /\ ~result.success

\* C12: when the save of the cache fails at the end of a run, the run
\* raises the error to its caller, and a run raises in no other case.
C12_SaveFailurePropagates ==
    (pc \in {"returned", "raised"}) => (SaveFailed <=> Raised)

\* C12, as the code has it: a run never raises; when the save fails the run
\* returns its result with success = FALSE and the system error as the last
\* entry of errors, the counts of the lookups kept.
C12_SaveFailureIsReported ==
    /\ ~Raised
    /\ SaveFailed =>
          /\ Returned
          /\ ~result.success
          /\ result.errors # <<>>
          /\ result.errors[Len(result.errors)] = <<0, "System error">>
          /\ result.errorCount = NumFailed
          /\ result.fetchedCount + result.errorCount = NumTasks

\* the save failed after a lookup had written a record to the cache
C12_Witness ==
    /\ SaveFailed
    /\ Returned
    /\ writeLog # {}
    /\ store = AbsentFile
    /\ result.fetchedCount = 1

LoadFellBack == loadOutcome = "reset"

\* C13: loadNutritionCache never propagates an error: when the file is
\* absent, the existence check or the download fails, or the content is
\* malformed, the cache is the empty mapping and the run goes on: every
\* distinct positive id is selected and the first group is looked up.
C13_LoadNeverThrows ==
    /\ loadOutcome # "none" =>
          /\ ioLog[1] = "load"
          /\ ~Raised
          /\ (<<0, "System error">> \in SeqToSet(result.errors)) => SaveFailed
    /\ LoadFellBack =>
          /\ loadedCache = EmptyCache
          /\ recipeIdsToFetch = uniqueRecipeIds
          /\ \A t \in GroupTasks(recipeIdsToFetch, 0, 0) : lookups[t] >= 1

\* the file holds a usable record of the id and its existence check or its
\* download failed, and the run fetched the id
C13_Witness ==
    /\ LoadFellBack
    /\ store = JsonFile(<<<<"1", StoredRecord>>>>)
    /\ ~forceRefresh
    /\ NumTasks = 1
    /\ status[1] = "success"
    /\ pc = "saving"

NumLoads == Cardinality({i \in 1..Len(ioLog) : ioLog[i] = "load"})
NumSaves == Cardinality({i \in 1..Len(ioLog) : ioLog[i] \in {"save", "saveError"}})
AnyLookup == \E t \in Tasks : lookups[t] > 0

\* C14: every run loads the cache exactly once, before any lookup, and
\* persists it exactly once, after the last lookup has settled.
C14_LoadOnceSaveOnce ==
    /\ AnyLookup => (NumLoads = 1 /\ ioLog[1] = "load")
    /\ NumSaves > 0 => \A t \in RunTasks : Settled(status[t])
    /\ Returned => (NumLoads = 1 /\ NumSaves = 1)

\* C14, as the code has it: every run loads the cache exactly once, before
\* any lookup; a run that selected an id for fetching saves exactly once,
\* when every lookup has settled and as its last step; a run with nothing to
\* fetch returns without saving.
C14_LoadOnceSaveOnceIfFetching ==
    /\ NumLoads = (IF pc = "start" THEN 0 ELSE 1)
    /\ AnyLookup => ioLog[1] = "load"
    /\ pc = "saving" => \A t \in RunTasks : Settled(status[t]) /\ lookups[t] >= 1
    /\ NumSaves > 0 => (Returned /\ \A t \in RunTasks : Settled(status[t]))
    /\ Returned => NumSaves = (IF NumTasks = 0 THEN 0 ELSE 1)

\* a run of two batches, with a lookup repeated after a 429, has saved once
C14_Witness ==
    /\ Returned
    /\ ioLog = <<"load", "save">>
    /\ NumTasks > BATCH_SIZE
    /\ \E t \in RunTasks : lookups[t] > 1

\* C17: under force-refresh no fetch task takes the cache hit: every
\* distinct positive id of the input is looked up at least once, also when
\* the cache holds a non-empty record for it, and the run returns
\* skippedCount = 0.
C17_ForceRefreshLooksUpAll ==
    forceRefresh =>
        /\ \A t \in Tasks : status[t] # "cached"
        /\ pc # "start" => recipeIdsToFetch = uniqueRecipeIds
        /\ Returned =>
              /\ result.skippedCount = 0
              /\ \A id \in SeqToSet(recipeIds) : id > 0 => LookupsOf(id) >= 1

\* the loaded cache held a usable record for the id and the id was looked up
C17_Witness ==
    /\ forceRefresh
    /\ Returned
    /\ \E t \in RunTasks :
          /\ Usable(loadedCache, recipeIdsToFetch[t])
          /\ lookups[t] >= 1
          /\ status[t] = "success"
    /\ result.skippedCount = 0

NumCalls == Len(calls)
LastCall == calls[NumCalls]
PrevCall == calls[NumCalls - 1]

\* the last entries of calls are an awaited saveNutritionCache followed by
\* an awaited loadNutritionCache, both succeeding, with nothing else in
\* flight
SaveThenLoad ==
    /\ NumCalls >= 4
    /\ pendingCalls = <<>>
    /\ calls[NumCalls - 3] = Call("save", "", EmptyRecord, "called")
    /\ calls[NumCalls - 2] = Call("save", "", EmptyRecord, "saved")
    /\ calls[NumCalls - 1] = Call("load", "", EmptyRecord, "called")
    /\ calls[NumCalls] = Call("load", "", EmptyRecord, "loaded")

\* C15: saveNutritionCache followed by loadNutritionCache, both succeeding,
\* leaves nutritionCache equal, as a mapping, to what it was before the save
\* (the save, the calls and the download leave the cache as it is, so that
\* is the cache before the load assigns).
C15_SaveLoadRoundTrip ==
    SaveThenLoad
    => /\ nutritionCache = cacheBefore
       /\ DOMAIN nutritionCache = DOMAIN cacheBefore
       /\ \A k \in DOMAIN cacheBefore : nutritionCache[k] = cacheBefore[k]

\* a record was written to the cache, and the cache went through the file
C15_Witness ==
    /\ NumCalls = 5
    /\ calls[1].op = "put" /\ calls[1].record = FetchedRecord
    /\ SaveThenLoad
    /\ nutritionCache = [k \in {"2"} |-> FetchedRecord]

\* C16: writing the same non-empty record for the same id twice leaves the
\* cache as writing it once does.
C16_PutTwiceIsPutOnce ==
    (/\ NumCalls >= 2
     /\ LastCall.op = "put" /\ LastCall = PrevCall
     /\ NumKeys(LastCall.record) > 0)
    => /\ nutritionCache = cacheBefore
       /\ nutritionCache[LastCall.key] = LastCall.record

\* the same record written twice over an entry that held another record
C16_Witness ==
    /\ NumCalls = 4
    /\ calls[2].op = "load" /\ calls[2].outcome = "loaded"
    /\ loadedCache = [k \in {"1"} |-> StoredRecord]
    /\ PrevCall = Call("put", "1", FetchedRecord, "done")
    /\ LastCall = PrevCall
    /\ nutritionCache = [k \in {"1"} |-> FetchedRecord]

----------------------------------------------------------------------------
(* generateSlug on one pair *)

\* the names: every text of up to MaxNameLen of these characters, a name of
\* more than SlugNameLimit letters, and one whose character at the limit is
\* not a letter
SlugNameChars == {"E", "g", "7", " ", "-", "&"}
LongName == [i \in 1..(SlugNameLimit + 2) |-> IF i % 2 = 1 THEN "a" ELSE "B"]
LongNameBlankAtLimit ==
    [i \in 1..(SlugNameLimit + 2) |-> IF i = SlugNameLimit THEN " " ELSE "a"]
SlugNames ==
    UNION {[1..n -> SlugNameChars] : n \in 0..MaxNameLen}
    \cup {LongName, LongNameBlankAtLimit}

\* the recipe-id strings: the data-recipe attribute as it stands in the page
TxLongId == <<"1", "2", "3", "4", "5", "6", "7">>
TxUpperId == <<"A", "1">>
TxUnderscoreId == <<"7", "_">>
SlugRecipeIds == {<<>>, TxZero, TxTwelve, TxLongId, TxUpperId, TxUnderscoreId}

\* what Math.random().toString(36).substring(2, 8) can give

InitSlug ==
    /\ recipeIds = <<>>
    /\ forceRefresh = FALSE
    /\ store = AbsentFile
    /\ InitNoRun
    /\ InitNoCalls
    /\ InitNoPage
    /\ InitNoScrape
    /\ InitNoFetch
    /\ InitNoOrch
    /\ slugName \in SlugNames
    /\ slugRecipeId \in SlugRecipeIds
    /\ slugs = <<>>

\* generateSlug(slugName, slugRecipeId) is called and returns
CallGenerateSlug ==
    /\ Len(slugs) < MaxSlugCalls
    /\ \E random \in Randoms :
          slugs' = Append(slugs, GenerateSlug(slugName, slugRecipeId, random))
    /\ UNCHANGED <<slugName, slugRecipeId, runAndCacheVars, pageVars, scrapeVars,
                   fetchVars, windowVars, handlerVars, extracted>>

NextSlug == CallGenerateSlug

SpecSlug == InitSlug /\ [][NextSlug]_vars

----------------------------------------------------------------------------
(* One fetchNutrition call with its retries *)

\* the retry-after header of a 429 answer: absent, or seconds
TxDefaultRetryAfter == <<"5">>
RetryAfterHeaders == {<<>>, <<"2">>, <<"5">>}

\* parseInt(err.response.headers["retry-after"] || "5", 10)
RetryAfter(header) ==
    LeadingNumber(IF header = <<>> THEN TxDefaultRetryAfter ELSE header, 0)

\* Math.random() * 2 * 1000, in whole ms: 0 <= jitter < 2000
JitterValues == {0, 1000, 1999}

\* waitTime = (retryAfter + Math.random() * 2) * 1000
WaitTime(header, jitter) == RetryAfter(header) * 1000 + jitter

\* what the call leaves unchanged
fetchFrame ==
    <<recipeIds, forceRefresh, store, loadedCache, loadOutcome, ioLog, pc,
      uniqueRecipeIds, recipeIdsToFetch, batchIndex, groupIndex, status,
      retryCount, lookups, limited, result, calls, cacheBefore, pendingCalls,
      pageVars, scrapeVars, slugVars, windowVars, handlerVars, extracted>>

\* fetchNutrition(fnRecipeId, 0, refresh) has passed the cache check and
\* awaits its lookup
InitFetch ==
    /\ recipeIds = <<>>
    /\ forceRefresh \in BOOLEAN
    /\ store = AbsentFile
    /\ InitNoRun
    /\ InitNoCalls
    /\ InitNoPage
    /\ InitNoScrape
    /\ InitNoSlug
    /\ InitNoOrch
    /\ fnRecipeId = 1
    /\ fnRetryCount = 0
    /\ fnPc = "fetching"
    /\ fnWaits = <<>>

\* The answer to the lookup arrives: the rest of the try block or the catch
\* block of fetchNutrition, up to its return, its throw or its delay.
FetchRespond(resp, header, jitter) ==
    /\ fnPc = "fetching"
    /\ LET outcome == FetchOutcome(resp, fnRetryCount)
           nutrition == ParseNutrition(resp.html)
       IN  CASE outcome = "return" ->
                  /\ IF ShouldCache(nutrition)
                     THEN /\ nutritionCache' =
                               CachePut(nutritionCache, IdKey(fnRecipeId), nutrition)
                          /\ writeLog' = writeLog \cup {<<IdKey(fnRecipeId), nutrition>>}
                     ELSE UNCHANGED <<nutritionCache, writeLog>>
                  /\ fnPc' = "returned"
                  /\ UNCHANGED fnWaits
            [] outcome = "return404" ->
                  /\ fnPc' = "returned"
                  /\ UNCHANGED <<nutritionCache, writeLog, fnWaits>>
            [] outcome = "retry" ->
                  /\ fnWaits' = Append(fnWaits, WaitTime(header, jitter))
                  /\ fnPc' = "backoff"
                  /\ UNCHANGED <<nutritionCache, writeLog>>
            [] outcome = "throw" ->
                  /\ fnPc' = "thrown"
                  /\ UNCHANGED <<nutritionCache, writeLog, fnWaits>>
    /\ UNCHANGED <<fnRecipeId, fnRetryCount, fetchFrame>>

\* await delay(waitTime) is over: fetchNutrition(recipeId, retryCount + 1,
\* refresh) runs up to its await
FetchRetry ==
    /\ fnPc = "backoff"
    /\ fnRetryCount' = fnRetryCount + 1
    /\ fnPc' = IF CacheHit(nutritionCache, fnRecipeId, forceRefresh)
               THEN "returned" ELSE "fetching"
    /\ UNCHANGED <<fnRecipeId, fnWaits, nutritionCache, writeLog, fetchFrame>>

NextFetch ==
    \/ \E resp \in Responses, header \in RetryAfterHeaders, jitter \in JitterValues :
          FetchRespond(resp, header, jitter)
    \/ FetchRetry

SpecFetch == InitFetch /\ [][NextFetch]_vars

----------------------------------------------------------------------------
(* Properties of fetchLocationPage *)

PageReturned == pagePc = "returned"

\* the items of a meal period, station by station
RECURSIVE ItemsOfStations(_)
ItemsOfStations(stations) ==
    IF stations = <<>> THEN <<>>
    ELSE Head(stations)[2].items \o ItemsOfStations(Tail(stations))
RECURSIVE NumItems(_)
NumItems(mealPeriods) ==
    IF mealPeriods = <<>> THEN 0
    ELSE Len(ItemsOfStations(Head(mealPeriods)[2].stations))
         + NumItems(Tail(mealPeriods))

\* the period holds every marker of the document: each under its station,
\* in document order, and nothing else
HoldsEveryMarker(period, doc) ==
    /\ \A i \in 1..Len(doc.markers) : OHas(period.stations, StationOf(doc.markers[i]))
    /\ \A k \in 1..Len(period.stations) :
          LET AtStation(m) == StationOf(m) = period.stations[k][1]
              ms == SelectSeq(doc.markers, AtStation)
          IN  /\ period.stations[k][2].items = [i \in 1..Len(ms) |-> FoodItem(ms[i])]
              /\ period.stations[k][2].itemIDs = [i \in 1..Len(ms) |-> ItemId(ms[i])]

NoStructure == document.fault = "none" /\ document.tabs = <<>> /\ document.headings = <<>>

\* C18 as stated: a document without tabs and headings, at a location whose
\* identifier contains "lunch", gives exactly one meal period, "Lunch",
\* holding every marker of the page.
C18_LunchLocationGivesLunch ==
    (PageReturned /\ NoStructure /\ Includes(location, SubLunch))
        => /\ OKeys(locationData) = <<TxLunch>>
           /\ HoldsEveryMarker(OGet(locationData, TxLunch), document)

\* C18 amended: a document without tabs and headings, at a location whose
\* identifier contains "lunch" and does not contain "breakfast", gives
\* exactly one meal period, "Lunch", holding every marker of the page.
C18_LunchWithoutBreakfastGivesLunch ==
    (PageReturned /\ NoStructure /\ Includes(location, SubLunch)
                  /\ ~Includes(location, SubBreakfast))
        => /\ OKeys(locationData) = <<TxLunch>>
           /\ HoldsEveryMarker(OGet(locationData, TxLunch), document)

\* the page of the lunchbox has two markers of two stations, in a panel and
\* in the body, and no tab and no heading
C18_Witness ==
    /\ PageReturned /\ NoStructure
    /\ location = LocLunchbox
    /\ Len(document.markers) = 2
    /\ StationOf(document.markers[1]) # StationOf(document.markers[2])
    /\ document.markers[1].region # "body"
    /\ OKeys(locationData) = <<TxLunch>>

\* the result of the tab, heading and default tiers, before the final fallback
TierResult ==
    ProcessPeriods(document, DetectMealPeriods(location, document), <<>>)

\* C19: when the tiers leave the result without items although the document
\* has markers, the final fallback attaches every marker of the document to
\* one fallback period.
C19_FallbackAttachesEveryMarker ==
    (PageReturned /\ document.fault = "none" /\ Len(document.markers) > 0
                  /\ NumItems(TierResult) = 0)
        => \E k \in 1..Len(locationData) :
               HoldsEveryMarker(locationData[k][2], document)

----------------------------------------------------------------------------
(* Properties of scrapeAllLocations *)

PageFailed(i) == pages[i] # "none"
DaysOf(i) == OGet(menuData, LOCATIONS[i]).days

\* C20: a failure while fetching or extracting a page makes fetchLocationPage
\* return the empty mapping instead of raising, and the orchestrator goes on
\* to the next location: nothing is raised, the location of a failed page
\* gets no data for the date, and the date ends only after every location
\* was asked for, whichever pages failed.
C20_PageFailureSkipsLocation ==
    /\ scrapePc # "raised"
    /\ Len(menuData) = locationIndex + 1
    /\ Len(pages) = (IF scrapePc = "fetchPage" THEN locationIndex ELSE locationIndex + 1)
    /\ \A i \in 1..Len(menuData) : menuData[i][1] = LOCATIONS[i]
    /\ \A i \in 1..Len(pages) : PageFailed(i) => DaysOf(i) = <<>>
    /\ (Len(pages) > 0 /\ PageFailed(Len(pages))) =>
          /\ pagePc = "returned"
          /\ locationData = EmptyMealPeriods
    /\ (scrapePc \in {"processNutrition", "nextDate"}) => Len(pages) = Len(LOCATIONS)

\* the first page failed to fetch, the second failed in the extraction, and
\* the third was still fetched and gave data
C20_Witness ==
    /\ scrapePc = "processNutrition"
    /\ pages = <<"fetchError", "extractError", "none">>
    /\ DaysOf(1) = <<>> /\ DaysOf(2) = <<>>
    /\ DaysOf(3) # <<>>
    /\ itemsMap # <<>>

----------------------------------------------------------------------------
(* Properties of generateSlug *)

\* ^[a-z0-9-]+$
MatchesSlugPattern(slug) ==
    /\ slug # <<>>
    /\ \A k \in 1..Len(slug) : IsSlugChar(slug[k]) \/ slug[k] = "-"

\* the id suffix of the slug of a recipe id, "" when it gets none
IdSuffixOf(recipeId) ==
    IF recipeId # <<>> /\ recipeId # TxZero
    THEN <<"-">> \o Suffix(recipeId, SlugIdSuffix) ELSE <<>>

\* C21: for every name and every recipe-id string the slug matches
\* ^[a-z0-9-]+$, and its part before the id suffix has at most 50 characters.
C21_SlugIsWellFormed ==
    \A i \in 1..Len(slugs) :
        /\ MatchesSlugPattern(slugs[i])
        /\ Len(slugs[i]) - Len(IdSuffixOf(slugRecipeId)) <= SlugNameLimit

\* C22: two calls of generateSlug on the same name and recipe-id string
\* return the same slug, also for the empty name and the empty recipe id.
C22_SlugIsDeterministic ==
    \A i, j \in 1..Len(slugs) : slugs[i] = slugs[j]

----------------------------------------------------------------------------
(* Properties of the back-off of fetchNutrition *)

\* C25: on 429 the lookup is retried with exponential back-off: for one id
\* the wait before each further retry is longer than the wait before.
C25_BackoffGrows ==
    \A i \in 1..(Len(fnWaits) - 1) : fnWaits[i + 1] > fnWaits[i]

----------------------------------------------------------------------------
(* Termination of a run *)

\* C27: every run terminates: no task is looked up more than
\* MaxRetries + 1 = 4 times, a repeat lookup of a task happens only out of
\* the back-off that follows a 429 answer, every task of the run has settled
\* when the cache is saved, and once a group has started the run eventually
\* returns.
C27_RunTerminates ==
    /\ [](\A t \in Tasks : lookups[t] <= MaxRetries + 1)
    /\ [](pc = "saving" => \A t \in RunTasks : Settled(status[t]))
    /\ [][\A t \in Tasks :
            (lookups[t] >= 1 /\ lookups'[t] # lookups[t]) =>
                /\ status[t] = "backoff"
                /\ recipeIdsToFetch[t] \in limited
                /\ lookups'[t] = lookups[t] + 1]_vars
    /\ ((pc = "awaitGroup") ~> Returned)
C27_Witness ==
    /\ Returned
    /\ NumTasks > CONCURRENT_REQUESTS
    /\ \E t \in RunTasks : lookups[t] = MaxRetries + 1
    /\ \E t \in RunTasks : status[t] = "failed"

----------------------------------------------------------------------------
(* Batches and concurrency groups *)

RECURSIVE ConcatBatches(_, _)
ConcatBatches(toFetch, b) ==
    IF b >= NumBatches(toFetch) THEN <<>>
    ELSE Batch(toFetch, b) \o ConcatBatches(toFetch, b + 1)
RECURSIVE ConcatMiniBatches(_, _)
ConcatMiniBatches(batch, g) ==
    IF g >= NumMiniBatches(batch) THEN <<>>
    ELSE MiniBatch(batch, g) \o ConcatMiniBatches(batch, g + 1)

\* C28: the ids selected for fetching are distinct, the batches in order
\* make up exactly the selected list, the groups of a batch in order make up
\* exactly the batch (so a group lies within one batch), a batch has between
\* 1 and BATCH_SIZE ids and a group between 1 and CONCURRENT_REQUESTS, and
\* the first tasks created are those of group 0 of batch 0.
C28_BatchesPartitionIds ==
    LET toFetch == recipeIdsToFetch
    IN  /\ \A i, j \in 1..Len(toFetch) : toFetch[i] = toFetch[j] => i = j
        /\ ConcatBatches(toFetch, 0) = toFetch
        /\ \A b \in 0..(NumBatches(toFetch) - 1) :
              LET batch == Batch(toFetch, b)
              IN  /\ Len(batch) \in 1..BATCH_SIZE
                  /\ ConcatMiniBatches(batch, 0) = batch
                  /\ \A g \in 0..(NumMiniBatches(batch) - 1) :
                        Len(MiniBatch(batch, g)) \in 1..CONCURRENT_REQUESTS
        /\ pc = "awaitGroup" =>
              {t \in Tasks : status[t] # "idle"} =
                  1..(IF Len(toFetch) < CONCURRENT_REQUESTS
                      THEN Len(toFetch) ELSE CONCURRENT_REQUESTS)
C28_Witness ==
    /\ pc = "awaitGroup"
    /\ Len(recipeIdsToFetch) < Len(recipeIds)
    /\ NumBatches(recipeIdsToFetch) = 2
    /\ NumMiniBatches(Batch(recipeIdsToFetch, 0)) = 2
    /\ Len(Batch(recipeIdsToFetch, 1)) < BATCH_SIZE

\* C29: at every moment of a run at most CONCURRENT_REQUESTS fetch tasks
\* are unsettled, a task waiting in a 429 back-off counted.
C29_AtMostOneGroupInFlight ==
    Cardinality({t \in RunTasks : InFlight(t)}) <= CONCURRENT_REQUESTS
C29_Witness ==
    /\ NumTasks > CONCURRENT_REQUESTS
    /\ Cardinality({t \in RunTasks : InFlight(t)}) = CONCURRENT_REQUESTS
    /\ \E t \in RunTasks : status[t] = "backoff"
    /\ \E t \in RunTasks : status[t] = "fetching"

\* C30: the barrier of every group is followed by the inter-item delay; a
\* group starts only at the entry (group 0 of batch 0), out of the
\* inter-item delay (next group of the same batch) or out of the inter-batch
\* delay (group 0 of the next batch); the inter-item delay after the last
\* group of a batch is followed by the inter-batch delay when another batch
\* follows and by the save when the batch is the final one.
C30_DelayOrdering ==
    [][/\ (pc = "awaitGroup" /\ pc' # "awaitGroup") => pc' = "itemDelay"
       /\ (pc # "awaitGroup" /\ pc' = "awaitGroup") =>
             \/ pc = "start" /\ batchIndex' = 0 /\ groupIndex' = 0
             \/ /\ pc = "itemDelay"
                /\ batchIndex' = batchIndex
                /\ groupIndex' = groupIndex + 1
             \/ /\ pc = "batchDelay"
                /\ batchIndex' = batchIndex + 1
                /\ groupIndex' = 0
       /\ (pc # "batchDelay" /\ pc' = "batchDelay") =>
             /\ pc = "itemDelay"
             /\ batchIndex < NumBatches(recipeIdsToFetch) - 1
       /\ (pc # "saving" /\ pc' = "saving") =>
             /\ pc = "itemDelay"
             /\ batchIndex = NumBatches(recipeIdsToFetch) - 1
       /\ (pc = "batchDelay" /\ pc' # "batchDelay") => pc' = "awaitGroup"
       /\ <<batchIndex', groupIndex'>> # <<batchIndex, groupIndex>> =>
             pc' = "awaitGroup"]_vars
C30_Witness ==
    /\ pc = "saving"
    /\ batchIndex = 1
    /\ NumMiniBatches(Batch(recipeIdsToFetch, 0)) = 2

----------------------------------------------------------------------------
(* Properties of the handler and of scrapeAllLocations *)

WindowDates == SeqToSet(AllDates)
LocationNames == SeqToSet(LOCATIONS)
Extracted(caller, date) == {x \in extracted : x[1] = caller /\ x[3] = date}
DatesChecked == scrapePc \notin {"none", "load", "checkDates"}
LoopOver == scrapePc \in {"scan", "refresh", "save", "returned", "raised"}
ScanOver == scrapePc \in {"refresh", "save", "returned", "raised"}

\* C23 as stated: no page of a date whose artifact was in the store when it
\* was checked is given to the extractor and its artifact is not written,
\* and every other date of the window has had its pages fetched when the
\* loop over the dates is over.
C23_ExistingDateIsSkipped ==
    DatesChecked =>
        \A date \in WindowDates :
            IF date \in presentAtCheck
            THEN /\ Extracted("menu", date) = {}
                 /\ Extracted("scan", date) = {}
                 /\ date \notin written
            ELSE LoopOver =>
                    \A loc \in LocationNames : <<"menu", loc, date>> \in extracted

\* C23, amended: a date whose existence check answered true had its
\* artifact in the store, none of its pages is fetched by the loop over the
\* dates and its artifact is not written; every other date of the window
\* has had every location page fetched when the loop is over; and the
\* closing scan has run the extractor on every page of every date.
C23_ReportedDateIsSkipped ==
    DatesChecked =>
        \A date \in WindowDates :
            /\ IF date \in reportedPresent
               THEN /\ date \in presentAtCheck
                    /\ Extracted("menu", date) = {}
                    /\ date \notin written
               ELSE LoopOver =>
                       \A loc \in LocationNames : <<"menu", loc, date>> \in extracted
            /\ ScanOver =>
                  \A loc \in LocationNames : <<"scan", loc, date>> \in extracted

\* the run has returned; one date was reported present and skipped, another
\* had its artifact too but its check failed, and it was written again
C23_Witness ==
    /\ scrapePc = "returned"
    /\ \E date \in reportedPresent :
         date \notin written /\ Extracted("menu", date) = {}
    /\ \E date \in presentAtCheck \ reportedPresent : date \in written

\* C24: in the artifact handed to the upload every location has a meal
\* period, every meal period a station and every station an itemID.
C24_ArtifactHasNoEmptyPart ==
    scrapePc = "upload" =>
        \A loc \in SeqToSet(normalizedMenuData.locations) :
            /\ Len(loc[2].mealPeriods) >= 1
            /\ \A period \in SeqToSet(loc[2].mealPeriods) :
                 /\ Len(period[2].stations) >= 1
                 /\ \A st \in SeqToSet(period[2].stations) :
                      Len(st[2].itemIDs) >= 1

\* the artifact of a date on which one location gave a page with an item
\* under one of its two tabs (the other period is pruned), one gave a page
\* without items (the location is pruned) and one failed
C24_Witness ==
    /\ scrapePc = "upload"
    /\ Len(normalizedMenuData.locations) = 1
    /\ Len(normalizedMenuData.locations[1][2].mealPeriods) = 1
    /\ \E i \in 1..Len(menuData) :
         /\ menuData[i][1] = normalizedMenuData.locations[1][1]
         /\ Len(menuData[i][2].days[1][2]) = 2
    /\ \E i \in 1..Len(menuData) :
         /\ menuData[i][2].days # <<>>
         /\ menuData[i][1] # normalizedMenuData.locations[1][1]
    /\ \E i \in 1..Len(menuData) : menuData[i][2].days = <<>>

\* C26: when CRON_SECRET is set and the authorization header is not
\* "Bearer <CRON_SECRET>", the only answer is 401 and scrapeAllLocations is
\* not started: no cache load, no page fetch, no lookup, no write to the store.
C26_UnauthorizedStartsNothing ==
    (cronSecret # "" /\ authorization # <<"Bearer ", cronSecret>>) =>
        /\ response.status \in {0, 401}
        /\ scrapePc = "none"
        /\ ioLog = <<>>
        /\ extracted = {}
        /\ nutritionCache = EmptyCache
        /\ allRecipeIds = <<>>
        /\ written = {}
        /\ store = AbsentFile
        /\ artifacts = WindowDates \ {AllDates[WindowDays]}

\* the request that carries the bare secret has been answered 401
C26_Witness ==
    /\ cronSecret = TxSecret
    /\ authorization = <<TxSecret>>
    /\ response.status = 401
    /\ scrapePc = "none"

----------------------------------------------------------------------------
(* Properties of the meal periods and stations of a page *)

\* the tabs and headings that name a period
UsableTabs ==
    {i \in 1..Len(document.tabs) :
        Trim(document.tabs[i].label) # <<>> /\ document.tabs[i].controls # ""}
UsableHeadings ==
    {i \in 1..Len(document.headings) :
        LET heading == Trim(document.headings[i].text)
        IN  heading # <<>> /\ ~Includes(heading, TxMenu) /\ ~Includes(heading, TxOptions)}
PeriodNames == SeqToSet(OKeys(locationData))

\* C31: the tiers are tried in order and the first that yields a period
\* decides: with a tab that has a label and a content id the periods come
\* only from tabs; without one, with a heading that names a period, only
\* from headings; with neither, the default of the location is the only
\* period.
C31_FirstTierDecides ==
    (PageReturned /\ document.fault = "none")
        => /\ PeriodNames # {}
           /\ UsableTabs # {}
                 => PeriodNames \subseteq
                        {Trim(document.tabs[i].label) : i \in UsableTabs}
           /\ (UsableTabs = {} /\ UsableHeadings # {})
                 => PeriodNames =
                        {Trim(document.headings[i].text) : i \in UsableHeadings}
           /\ (UsableTabs = {} /\ UsableHeadings = {})
                 => OKeys(locationData) = <<DefaultMealTime(location)>>

\* a page with a usable tab and a usable heading has returned the period of
\* the tab
C31_Witness ==
    /\ PageReturned
    /\ UsableTabs # {} /\ UsableHeadings # {}
    /\ OKeys(locationData) = <<TxLunch>>
    /\ document.headings[1].text = TxGrill

\* s is t with some elements left out
IsSubsequence(s, t) ==
    \E f \in [1..Len(s) -> 1..Len(t)] :
        /\ \A i, j \in 1..Len(s) : i < j => f[i] < f[j]
        /\ \A i \in 1..Len(s) : s[i] = t[f[i]]

\* the stations of the result, over all meal periods
AllStations ==
    UNION {{<<p, k>> : k \in 1..Len(locationData[p][2].stations)} :
              p \in 1..Len(locationData)}
StationAt(pk) == locationData[pk[1]][2].stations[pk[2]][2]

\* the <<item, slug>> pairs of the markers of the document, in document order
MarkerPairs ==
    [i \in 1..Len(document.markers) |->
        <<FoodItem(document.markers[i]),
          GenerateSlug(FoodItem(document.markers[i]).name,
                       document.markers[i].recipe, document.markers[i].random)>>]

\* the detected meal periods have pairwise distinct names
DistinctPeriodNames ==
    LET periods == DetectMealPeriods(location, document)
    IN  \A i, j \in 1..Len(periods) : i # j => periods[i][2] # periods[j][2]

\* C32 as stated: in every station of the result items and itemIDs have the
\* same length, itemIDs[i] is the slug of the name of items[i] and of the
\* raw recipe id of its marker, and both follow the order of the document.
C32_ItemIDsParallelItems ==
    PageReturned
        => \A pk \in AllStations :
               LET st == StationAt(pk)
               IN  /\ Len(st.items) = Len(st.itemIDs)
                   /\ IsSubsequence([i \in 1..Len(st.items) |->
                                        <<st.items[i], st.itemIDs[i]>>],
                                    MarkerPairs)

\* C32 amended: in every station of the result items and itemIDs have the
\* same length and itemIDs[i] is the slug of the name of items[i] and of
\* the raw recipe id of its marker; both follow the order of the document
\* when no two detected meal periods have the same name.
C32_ParallelAndOrderedPerName ==
    PageReturned
        => \A pk \in AllStations :
               LET st == StationAt(pk)
               IN  /\ Len(st.items) = Len(st.itemIDs)
                   /\ \A i \in 1..Len(st.items) :
                         \E k \in 1..Len(MarkerPairs) :
                             MarkerPairs[k] = <<st.items[i], st.itemIDs[i]>>
                   /\ DistinctPeriodNames
                         => IsSubsequence([i \in 1..Len(st.items) |->
                                              <<st.items[i], st.itemIDs[i]>>],
                                          MarkerPairs)

\* a page with two meal periods of different names has given a station two
\* items with different slugs
C32_Witness ==
    /\ PageReturned
    /\ DistinctPeriodNames
    /\ Len(OKeys(locationData)) = 2
    /\ \E pk \in AllStations :
          /\ Len(StationAt(pk).itemIDs) = 2
          /\ StationAt(pk).itemIDs[1] # StationAt(pk).itemIDs[2]

----------------------------------------------------------------------------
(* Properties of the dates of a run of scrapeAllLocations *)

\* some location has yielded a meal period for the date at hand
DateHasData ==
    \E k \in 1..Len(menuData) : menuData[k][2].days # <<>>

\* C33: the artifact of a date is uploaded only if some location yielded a
\* meal period for that date, whatever the other dates of the run yielded.
C33_NoDataDateIsNotUploaded ==
    [][(scrapePc = "upload" /\ CurrentDate \in written' \ written)
          => DateHasData]_vars

\* scrapeAllLocations is over: it has returned or thrown
RunOver == scrapePc \in {"returned", "raised"}

\* C34: a failed upload of the artifact of a date does not abort the run:
\* the run ends only with the saveNutritionCache call that closes it, after
\* the loop has gone through every date to process.
C34_UploadFailureDoesNotAbort ==
    (RunOver /\ uploadFailed # {})
        => /\ ioLog # <<>> /\ ioLog[Len(ioLog)] \in {"save", "saveError"}
           /\ \A i \in 1..Len(datesToProcess) :
                  {x[2] : x \in Extracted("menu", datesToProcess[i])} = LocationNames

\* the upload of the first date failed, the second date was uploaded and
\* the cache was saved
C34_Witness ==
    /\ scrapePc = "returned"
    /\ Len(datesToProcess) = 2
    /\ uploadFailed = {datesToProcess[1]}
    /\ written = {datesToProcess[2]}
    /\ ioLog[Len(ioLog)] = "save"

----------------------------------------------------------------------------
(* Properties of the items map of a date *)

\* the <<slug, item>> pairs of the date as the merge meets them: location by
\* location, and in a location period by period, station by station, in
\* the order of the station
RECURSIVE StationPairs(_)
StationPairs(stations) ==
    IF stations = <<>> THEN <<>>
    ELSE LET st == Head(stations)[2]
         IN  [i \in 1..Len(st.items) |-> <<st.itemIDs[i], st.items[i]>>]
                \o StationPairs(Tail(stations))
RECURSIVE PeriodPairs(_)
PeriodPairs(mealPeriods) ==
    IF mealPeriods = <<>> THEN <<>>
    ELSE StationPairs(Head(mealPeriods)[2].stations) \o PeriodPairs(Tail(mealPeriods))
RECURSIVE MenuPairs(_)
MenuPairs(menu) ==
    IF menu = <<>> THEN <<>>
    ELSE (IF Head(menu)[2].days = <<>> THEN <<>>
          ELSE PeriodPairs(Head(menu)[2].days[1][2]))
            \o MenuPairs(Tail(menu))

\* the item met first under the slug
FirstWithSlug(pairs, slug) ==
    pairs[CHOOSE i \in 1..Len(pairs) :
             /\ pairs[i][1] = slug
             /\ \A j \in 1..(i - 1) : pairs[j][1] # slug][2]

\* C35: the items map of a date holds under a slug the first item met with
\* that slug, in location, period, station and document order; an item met
\* later with the same slug does not replace it.
C35_FirstItemOfSlugIsKept ==
    LET pairs == MenuPairs(menuData)
    IN  \A k \in 1..Len(itemsMap) :
            /\ \E i \in 1..Len(pairs) : pairs[i][1] = itemsMap[k][1]
            /\ itemsMap[k][2] = FirstWithSlug(pairs, itemsMap[k][1])

\* all locations of the date are merged, and two different items of two
\* locations had the same slug
C35_Witness ==
    /\ scrapePc = "processNutrition"
    /\ Len(menuData) = Len(LOCATIONS)
    /\ LET pairs == MenuPairs(menuData)
       IN  \E i, j \in 1..Len(pairs) :
              /\ i < j
              /\ pairs[i][1] = pairs[j][1]
              /\ pairs[i][2] # pairs[j][2]
              /\ OGet(itemsMap, pairs[i][1]) = pairs[i][2]

----------------------------------------------------------------------------
(* Referential integrity of the artifact of a date *)

\* the itemIDs listed under the locations, meal periods and stations of an
\* artifact
ListedItemIDs(artifact) ==
    UNION {UNION {UNION {SeqToSet(st[2].itemIDs) :
                            st \in SeqToSet(period[2].stations)} :
                     period \in SeqToSet(loc[2].mealPeriods)} :
              loc \in SeqToSet(artifact.locations)}

\* C40: every itemID listed under a location, meal period and station of
\* an uploaded artifact is a key of the items map of the artifact.
C40_ListedItemIDsAreItemKeys ==
    [][(scrapePc = "upload" /\ CurrentDate \in written' \ written)
          => ListedItemIDs(normalizedMenuData)
                \subseteq SeqToSet(OKeys(normalizedMenuData.items))]_vars

----------------------------------------------------------------------------
(* Properties of the result of collectNutritionData *)

\* the messages of errors that name a recipe
RecipeErrors ==
    LET OfRecipe(entry) == entry[1] # 0 IN SelectSeq(result.errors, OfRecipe)

\* errorCount, missingRecipes and errors agree with each other and with the
\* ids selected for fetching
FailuresAgree ==
    /\ result.errorCount = Len(result.missingRecipes)
    /\ \A i, j \in 1..Len(result.missingRecipes) :
          i # j => result.missingRecipes[i] # result.missingRecipes[j]
    /\ SeqToSet(result.missingRecipes) \subseteq SeqToSet(recipeIdsToFetch)
    /\ [i \in 1..Len(RecipeErrors) |-> RecipeErrors[i][1]] = result.missingRecipes
NumDistinctPositive == Cardinality({id \in SeqToSet(recipeIds) : id > 0})
CountsSum == result.fetchedCount + result.errorCount + result.skippedCount

\* C36 as stated: the failures agree in every state, and a run that has
\* gone through its batches returns counts that sum to the number of
\* distinct positive ids of the input.
C36_CountsSumToDistinctIds ==
    /\ FailuresAgree
    /\ Returned => CountsSum = NumDistinctPositive

\* C36 amended: the failures agree in every state; a run that returns with
\* its cache saved, or with nothing to fetch, returns counts that sum to the
\* number of distinct positive ids of the input; a run whose save failed
\* returns skippedCount = 0 and counts that sum to the number of ids
\* selected for fetching.
C36_CountsSumUnlessSaveFailed ==
    /\ FailuresAgree
    /\ (Returned /\ ~SaveFailed) => CountsSum = NumDistinctPositive
    /\ (Returned /\ SaveFailed) =>
          /\ result.skippedCount = 0
          /\ CountsSum = Len(recipeIdsToFetch)

\* a run that skipped the cached id, had a lookup fail and another succeed,
\* and saved
C36_Witness ==
    /\ Saved
    /\ result.skippedCount = 1
    /\ result.errorCount = 1
    /\ result.fetchedCount = 1
    /\ NumDistinctPositive = Len(recipeIds) - 2

----------------------------------------------------------------------------
(* Properties of the cache within a run *)

Loaded == pc # "start"
KeptNonEmpty(key) ==
    key \in DOMAIN nutritionCache /\ NumKeys(nutritionCache[key]) > 0
LookupGaveNothing(t) == status[t] \in {"notfound", "empty", "failed"}

\* C37: from the load on, an entry of the cache is never removed and a
\* non-empty record never blanked, be it loaded or written by the run; an
\* id whose forced lookup ended in 404, in an empty parse or in a failure
\* has the entry the load gave it.
C37_EntriesAreKept ==
    Loaded =>
        /\ \A key \in DOMAIN loadedCache :
              /\ key \in DOMAIN nutritionCache
              /\ NumKeys(loadedCache[key]) > 0 => KeptNonEmpty(key)
        /\ \A entry \in writeLog : KeptNonEmpty(entry[1])
        /\ \A t \in RunTasks :
              LET key == IdKey(recipeIdsToFetch[t])
              IN  (forceRefresh /\ LookupGaveNothing(t) /\ key \in DOMAIN loadedCache)
                     => nutritionCache[key] = loadedCache[key]

\* a forced run: the lookup of the stored recipe 1 ended in 404, the
\* lookup of recipe 2 wrote a record, and recipe 1 has its stored record
C37_Witness ==
    /\ forceRefresh
    /\ Returned
    /\ status[1] = "notfound"
    /\ status[2] = "success"
    /\ IdKey(1) \in DOMAIN loadedCache
    /\ loadedCache[IdKey(1)] = StoredRecord
    /\ nutritionCache[IdKey(1)] = StoredRecord
    /\ nutritionCache[IdKey(2)] = FetchedRecord

----------------------------------------------------------------------------
(* Properties of the persisted cache *)

\* the keys of the cache object of the durable store
StoreKeys(file) == {file.members[i][1] : i \in 1..Len(file.members)}

\* C38: a run never shrinks the persisted cache: every key of the cache
\* object of the durable store is still a key of it after every step of a
\* run.
C38_StoreNeverShrinks ==
    [][StoreKeys(store) \subseteq StoreKeys(store')]_vars

====
